---- MODULE Spec2Model ----
(***************************************************************************)
(* Model of the SQL agent: the SQL safety validator (DatabaseTools.         *)
(* validate_sql), the database tools, the tool dispatch (SQLAgent.         *)
(* _execute_tool) and the conversation loop (SQLAgent.process_question).   *)
(*                                                                         *)
(* Python strings are sequences of one-character strings, so that upper(), *)
(* strip(), rstrip(';'), startswith() and the substring test x in s are       *)
(* computed character by character as the code computes them.              *)
(***************************************************************************)
EXTENDS Integers, Sequences, FiniteSets, TLC

(***************************************************************************)
(* Bounds of the model.                                                    *)
(***************************************************************************)
\* number of fragments an input SQL string is built from
MaxFrags == 3
\* rows a query may return
MaxRows == 2

(***************************************************************************)
(* Program constants.                                                      *)
(***************************************************************************)
\* config.py: DEFAULT_LIMIT = 100
DEFAULT_LIMIT == 100
\* agent.py: max_iterations = 10
max_iterations == 10
\* agent.py: args.get("sample_size", 5)
DefaultSampleSize == 5

(***************************************************************************)
(* Python string primitives.                                               *)
(***************************************************************************)
LowerChars == <<"a","b","c","d","e","f","g","h","i","j","k","l","m",
                "n","o","p","q","r","s","t","u","v","w","x","y","z">>
UpperChars == <<"A","B","C","D","E","F","G","H","I","J","K","L","M",
                "N","O","P","Q","R","S","T","U","V","W","X","Y","Z">>

\* str.upper() on one character
UpperChar(c) ==
    IF \E i \in 1..26 : LowerChars[i] = c
    THEN UpperChars[CHOOSE i \in 1..26 : LowerChars[i] = c]
    ELSE c

\* str.lower() on one character
LowerChar(c) ==
    IF \E i \in 1..26 : UpperChars[i] = c
    THEN LowerChars[CHOOSE i \in 1..26 : UpperChars[i] = c]
    ELSE c

\* a validator that compares the statement as written, without upper-casing it
UpperOmitted(s) == s

\* str.upper()
Upper(s) == [i \in 1..Len(s) |-> UpperChar(s[i])]

\* str.lower()
Lower(s) == [i \in 1..Len(s) |-> LowerChar(s[i])]

\* the characters str.strip() removes
Whitespace == {" ", "\n", "\t"}

\* str.lstrip()
RECURSIVE LStrip(_)
LStrip(s) ==
    IF s # <<>> /\ Head(s) \in Whitespace THEN LStrip(Tail(s)) ELSE s

\* str.rstrip(chars)
RECURSIVE RStripChars(_, _)
RStripChars(s, chars) ==
    IF s # <<>> /\ s[Len(s)] \in chars
    THEN RStripChars(SubSeq(s, 1, Len(s) - 1), chars)
    ELSE s

\* str.strip()
Strip(s) == RStripChars(LStrip(s), Whitespace)

\* sub in s
Contains(sub, s) ==
    \E i \in 0..(Len(s) - Len(sub)) : SubSeq(s, i + 1, i + Len(sub)) = sub

\* s.startswith(pre)
StartsWith(s, pre) ==
    Len(pre) <= Len(s) /\ SubSeq(s, 1, Len(pre)) = pre

\* one decimal digit as a character
DigitChar(d) == <<"0","1","2","3","4","5","6","7","8","9">>[d + 1]

\* str(n) for a natural number, as the f-string formats DEFAULT_LIMIT
RECURSIVE IntToStr(_)
IntToStr(n) ==
    IF n < 10 THEN <<DigitChar(n)>>
    ELSE IntToStr(n \div 10) \o <<DigitChar(n % 10)>>

(***************************************************************************)
(* Words.                                                                  *)
(***************************************************************************)
kwINSERT   == <<"I","N","S","E","R","T">>
kwUPDATE   == <<"U","P","D","A","T","E">>
kwDELETE   == <<"D","E","L","E","T","E">>
kwDROP     == <<"D","R","O","P">>
kwALTER    == <<"A","L","T","E","R">>
kwCREATE   == <<"C","R","E","A","T","E">>
kwTRUNCATE == <<"T","R","U","N","C","A","T","E">>
kwSELECT   == <<"S","E","L","E","C","T">>
kwWITH     == <<"W","I","T","H">>
kwLIMIT    == <<"L","I","M","I","T">>
kwCOUNT    == <<"C","O","U","N","T","(">>
kwSUM      == <<"S","U","M","(">>
kwAVG      == <<"A","V","G","(">>

\* config.py: BLOCKED_KEYWORDS, in list order
BLOCKED_KEYWORDS ==
    <<kwINSERT, kwUPDATE, kwDELETE, kwDROP, kwALTER, kwCREATE, kwTRUNCATE>>

(***************************************************************************)
(* DatabaseTools.validate_sql                                              *)
(***************************************************************************)
\* Optional[str]: None is the empty tuple, a string s is <<s>>
None == <<>>
Some(s) == <<s>>

\* the validator's messages; arg carries the formatted {keyword} or {DEFAULT_LIMIT}
MsgBlocked(keyword) ==
    [text |-> "Blocked operation: {keyword}. Only read-only queries allowed.",
     arg |-> keyword]
MsgOnlySelect == [text |-> "Only SELECT queries are allowed.", arg |-> <<>>]
MsgInvalidSyntax == [text |-> "Invalid SQL syntax.", arg |-> <<>>]
MsgAddedLimit ==
    [text |-> "Valid. Added LIMIT {DEFAULT_LIMIT} for safety.",
     arg |-> IntToStr(DEFAULT_LIMIT)]
MsgValid == [text |-> "Valid SQL query.", arg |-> <<>>]

\* sqlparse.parse(sql): a non-validating parser; the tuple of statements it
\* returns is empty only for an empty input
SqlParse(sql) == IF sql = <<>> THEN <<>> ELSE <<sql>>

\* the first keyword of BLOCKED_KEYWORDS found in sql_upper (0: none)
FirstBlocked(sql_upper) ==
    IF \E k \in 1..Len(BLOCKED_KEYWORDS) : Contains(BLOCKED_KEYWORDS[k], sql_upper)
    THEN CHOOSE k \in 1..Len(BLOCKED_KEYWORDS) :
            /\ Contains(BLOCKED_KEYWORDS[k], sql_upper)
            /\ \A j \in 1..(k - 1) : ~Contains(BLOCKED_KEYWORDS[j], sql_upper)
    ELSE 0

\* a LIMIT injection that keeps the trailing semicolons
AddLimitKeepingSemicolon(sql) ==
    sql \o <<" ">> \o kwLIMIT \o <<" ">> \o IntToStr(DEFAULT_LIMIT)

\* f"{sql.rstrip(';')} LIMIT {DEFAULT_LIMIT}"
AddLimit(sql) ==
    RStripChars(sql, {";"}) \o <<" ">> \o kwLIMIT \o <<" ">> \o IntToStr(DEFAULT_LIMIT)

\* a LIMIT test that never finds the clause
HasLimitOmitted(sql_upper) == FALSE

\* "LIMIT" in sql_upper
HasLimit(sql_upper) == Contains(kwLIMIT, sql_upper)

\* an aggregate test that never finds an aggregate
HasAggregateOmitted(sql_upper) == FALSE

\* the aggregate test of the LIMIT injection
HasAggregate(sql_upper) ==
    \/ Contains(kwCOUNT, sql_upper)
    \/ Contains(kwSUM, sql_upper)
    \/ Contains(kwAVG, sql_upper)

validate_sql(sql) ==
    LET sql_upper == Strip(Upper(sql))
        blocked == FirstBlocked(sql_upper)
    IN  IF blocked # 0
        THEN [is_valid |-> FALSE, message |-> MsgBlocked(BLOCKED_KEYWORDS[blocked]),
              modified_sql |-> None]
        ELSE IF ~StartsWith(sql_upper, kwSELECT) /\ ~StartsWith(sql_upper, kwWITH)
        THEN [is_valid |-> FALSE, message |-> MsgOnlySelect, modified_sql |-> None]
        ELSE IF SqlParse(sql) = <<>>
        THEN [is_valid |-> FALSE, message |-> MsgInvalidSyntax, modified_sql |-> None]
        ELSE IF ~HasLimit(sql_upper) /\ ~HasAggregate(sql_upper)
        THEN [is_valid |-> TRUE, message |-> MsgAddedLimit,
              modified_sql |-> Some(AddLimit(sql))]
        ELSE [is_valid |-> TRUE, message |-> MsgValid, modified_sql |-> Some(sql)]

(***************************************************************************)
(* State.                                                                  *)
(***************************************************************************)
VARIABLES
    v_sql,        \* validator harness: the statement handed to validate_sql
    v_res,        \* validator harness: None, or <<the tuple validate_sql returned>>
    v_res2,       \* validator harness: None, or <<what validate_sql returned for the
                  \* effective SQL of v_res>>
    db_file,      \* what is at db_path: "missing", "unopenable" or "ok"
    available,    \* DatabaseTools.available
    connection,   \* DatabaseTools.connection: "None", "open" or "closed"
    t_call,       \* the last call made on the tools: None, or <<[tool, args, outcome]>>
    pc,           \* process_question: "idle", "loop" (at the while test), "returned", "raised"
    question,     \* the question of the current call
    is_sql_request, \* the classification computed at the start of the call
    response,     \* the LLM response the loop holds, or read last
    iteration,    \* the loop counter
    last_result,  \* None, or <<the last tool result>>
    steps,        \* the first two entries of ReasoningTrace.steps
    outcome,      \* None, or <<the mapping process_question returned>>
    exit_path,    \* how the current call ended
    sends,        \* send_message calls attempted during the current call
    sent,         \* None, or <<the last message handed to chat.send_message>>
    chat,         \* SQLAgent.chat: "fresh" (the session of the constructor, without a
                  \* turn), "reset" (a session of reset_chat, without a turn) or "used"
    dispatches,   \* tools dispatched by the loop during the current call
    only_tools,   \* every response the current call read was a tool request
    api_key,      \* config.GEMINI_API_KEY is set
    entry,        \* the entry point that ran: "none", "http", "interactive" or "demo"
    started,      \* "no", "yes" (serving requests or questions) or "returned" (the
                  \* entry point gave up)
    app_agent,    \* app.state.agent, or the agent of the CLI: "unset", "None" or
                  \* "built" (its db_tools are db_file, available, connection)
    reqs          \* the HTTP request each worker thread is handling

toolVars == <<db_file, available, connection, t_call>>
validatorVars == <<v_sql, v_res, v_res2>>
programVars == <<api_key, entry, started, app_agent, reqs>>
callVars == <<pc, question, is_sql_request, response, iteration, last_result, steps,
              outcome, exit_path, sends, sent, chat, dispatches, only_tools>>

(***************************************************************************)
(* The database as the tools see it.  What a statement returns depends on  *)
(* the file's contents, which the program does not own: every result the   *)
(* sqlite3 module can hand back is possible.                               *)
(***************************************************************************)
\* the column lists a cursor.description can carry
ColumnLists == {<<"id", "name">>}

\* the names a column list holds
Range(f) == {f[i] : i \in DOMAIN f}

\* rows = cursor.fetchall(); results.append(dict(zip(columns, row)))
ResultRows(columns, n) == [i \in 1..n |-> [c \in Range(columns) |-> i]]

\* an error value as text plus its formatted argument
Err(text) == [text |-> text, arg |-> <<>>]

\* a statement that yields a result set (cursor.description is not None)
IsQuery(sql) ==
    LET u == Strip(Upper(sql))
    IN  StartsWith(u, kwSELECT) \/ StartsWith(u, kwWITH)

\* what a call returns or raises: value is the returned mapping, exc the
\* exception that leaves the call, executed the statements handed to
\* DatabaseTools.execute_sql during the call
Ret(v) == [raised |-> FALSE, exc |-> "", value |-> v, executed |-> <<>>]
Raise(e) == [raised |-> TRUE, exc |-> e, value |-> [error |-> Err(e)], executed |-> <<>>]

NotAvailable == [error |-> Err("Database not available")]

(***************************************************************************)
(* DatabaseTools                                                           *)
(***************************************************************************)
\* a _connect without the exists() test: sqlite3.connect creates the missing file
ConnectWithoutExistsTest ==
    { [db_file |-> "missing",    available |-> TRUE,  connection |-> "open"],
      [db_file |-> "unopenable", available |-> FALSE, connection |-> "None"],
      [db_file |-> "ok",         available |-> TRUE,  connection |-> "open"] }

\* DatabaseTools.__init__ and _connect: the three things db_path can be
ConnectStates ==
    { [db_file |-> "missing",    available |-> FALSE, connection |-> "None"],
      [db_file |-> "unopenable", available |-> FALSE, connection |-> "None"],
      [db_file |-> "ok",         available |-> TRUE,  connection |-> "open"] }

\* self.connection.cursor(): raises sqlite3.ProgrammingError on a closed handle
CursorFails == connection # "open"

\* table names that name no table of the database file
MissingTables == {"nosuch"}

\* DatabaseTools.get_schema_info(table_name)
get_schema_info(table_name) ==
    IF ~available THEN {Ret(NotAvailable)}
    ELSE IF CursorFails THEN {Raise("ProgrammingError")}
    ELSE IF table_name = None
    THEN { Ret([type |-> "all_tables", tables |-> <<"users">>, count |-> 1]),
           Ret([type |-> "all_tables", tables |-> <<>>, count |-> 0]),
           Raise("OperationalError") }
    ELSE \* PRAGMA table_info of an unknown table returns no row and no error
         { Ret([type |-> "table_schema", table_name |-> table_name[1],
                columns |-> cols, foreign_keys |-> <<>>])
             : cols \in IF table_name[1] \in MissingTables
                        THEN {<<>>} ELSE ColumnLists \cup {<<>>} }
         \cup
         { Ret([error |-> [text |-> "Table '{table_name}' not found or error: {e}",
                           arg |-> <<>>]]) }

\* DatabaseTools.explore_data(table_name, column_name, sample_size)
explore_data(table_name, column_name, sample_size) ==
    IF ~available THEN {Ret(NotAvailable)}
    ELSE IF CursorFails THEN {Raise("ProgrammingError")}
    ELSE IF column_name = None
    THEN { Ret([type |-> "sample_rows", table |-> table_name, columns |-> cols,
                sample_data |-> ResultRows(cols, n), sample_size |-> n])
             : cols \in ColumnLists,
               n \in {k \in 0..MaxRows : sample_size < 0 \/ k <= sample_size} }
         \cup { Ret([error |-> Err("Error exploring data: {e}")]) }
    ELSE { Ret([type |-> "column_stats", table |-> table_name,
                column |-> column_name[1],
                distinct_count |-> d, non_null_count |-> nn, total_count |-> t,
                sample_values |-> [i \in 1..k |-> i]])
             : <<d, nn, t, k>> \in
                 { q \in (0..MaxRows) \X (0..MaxRows) \X (0..MaxRows) \X (0..MaxRows) :
                     /\ q[1] <= q[2] /\ q[2] <= q[3]
                     /\ (q[2] > 0 => q[1] > 0)
                     /\ q[4] <= q[1]
                     /\ (sample_size >= 0 => q[4] = IF q[1] <= sample_size
                                                     THEN q[1] ELSE sample_size) } }
         \cup { Ret([error |-> Err("Error exploring data: {e}")]) }

\* DatabaseTools.get_table_stats()
get_table_stats ==
    IF ~available THEN {Ret(NotAvailable)}
    ELSE IF CursorFails THEN {Raise("ProgrammingError")}
    ELSE { Ret([type |-> "table_stats", tables |-> [users |-> [row_count |-> n]]])
             : n \in 0..MaxRows }
         \cup { Raise("OperationalError") }

\* a statement that names the same column twice
sqlSelectTwice == <<"s","e","l","e","c","t"," ","a",","," ","a">>

\* the column lists the cursor.description of a statement can carry: a
\* SELECT that names a column twice has the name twice
QueryColumnLists(sql) ==
    IF sql = sqlSelectTwice THEN {<<"a", "a">>} ELSE ColumnLists

\* the readings of time.time() around a statement, in milliseconds
ClockReadings == {0, 1}

\* round(time.time() - start_time, 3), start_time being read first and the
\* clock not being set back in between
ExecutionTimes ==
    { p[2] - p[1] : p \in {q \in ClockReadings \X ClockReadings : q[1] <= q[2]} }

\* a success mapping whose row_count is one more than the rows it carries
SuccessResultMiscounted(sql, columns, n, execution_time) ==
    [success |-> TRUE, sql |-> sql, columns |-> columns,
     results |-> ResultRows(columns, n), row_count |-> n + 1,
     execution_time |-> execution_time]

\* the mapping execute_sql returns when the statement ran: n rows fetched
SuccessResult(sql, columns, n, execution_time) ==
    [success |-> TRUE, sql |-> sql, columns |-> columns,
     results |-> ResultRows(columns, n), row_count |-> n,
     execution_time |-> execution_time]

\* DatabaseTools.execute_sql(sql)
execute_sql(sql) ==
    LET called(o) == [o EXCEPT !.executed = <<sql>>]
    IN  IF ~available
        THEN {called(Ret([success |-> FALSE, error |-> Err("Database not available")]))}
        ELSE IF CursorFails THEN {called(Raise("ProgrammingError"))}
        ELSE { called(Ret(SuccessResult(sql, q[1], q[2], t)))
                 : q \in { q \in (QueryColumnLists(sql) \cup {<<>>}) \X (0..MaxRows) :
                             /\ (IsQuery(sql) => q[1] # <<>>)
                             /\ (q[1] = <<>> => q[2] = 0) },
                   t \in ExecutionTimes }
             \cup
             { called(Ret([success |-> FALSE, sql |-> sql, error |-> Err("{str(e)}"),
                           error_type |-> "OperationalError", execution_time |-> t]))
                 : t \in ExecutionTimes }

\* DatabaseTools.close(): the handle, when there is one, is closed; the
\* availability flag is left as it was
close_connection == IF connection = "None" THEN "None" ELSE "closed"

(***************************************************************************)
(* Inputs.                                                                 *)
(***************************************************************************)
\* the pieces input statements are built from: the accepted prefixes in both
\* cases, one spelling of every blocked keyword, the aggregates, LIMIT,
\* white space and the semicolon
Fragments ==
    { kwSELECT, <<"w","i","t","h">>, <<" ">>, <<"a">>, <<";">>,
      <<"i","n","s","e","r","t">>, kwUPDATE, <<"D","e","l","e","t","e">>, <<"d","R","o","P">>,
      kwALTER, <<"c","r","e","a","t","e">>, kwTRUNCATE,
      kwCOUNT, <<"s","u","m","(">>, kwAVG, <<"l","i","m","i","t">> }

\* every concatenation of at most n fragments
RECURSIVE Concats(_)
Concats(n) ==
    IF n = 0 THEN {<<>>}
    ELSE LET shorter == Concats(n - 1)
         IN  shorter \cup {s \o f : s \in shorter, f \in Fragments}

SqlStrings == Concats(MaxFrags)

\* the statements the LLM and direct callers hand to the tools
sqlSelectSemi  == <<"s","e","l","e","c","t"," ","a",";">>
sqlCount       == <<"S","E","L","E","C","T"," ","C","O","U","N","T","(","a",")">>
sqlDrop        == <<"D","R","O","P"," ","T","A","B","L","E"," ","a">>
sqlPragma      == <<"P","R","A","G","M","A"," ","x">>
SqlSamples == {sqlSelectSemi, sqlCount, sqlDrop, sqlPragma}

(***************************************************************************)
(* SQLAgent._execute_tool                                                  *)
(***************************************************************************)
\* args.get(key)
ArgGet(args, key) == IF key \in DOMAIN args THEN Some(args[key]) ELSE None

\* a Python value used as a condition: None and "" are false
Truthy(opt) == opt # None /\ opt[1] # <<>>

\* a substituted statement run without the message being attached
WithoutValidationMessage(o, message) == o

\* result["validation_message"] = message
WithValidationMessage(o, message) ==
    IF o.raised THEN o
    ELSE [o EXCEPT !.value = ("validation_message" :> message) @@ o.value]

\* an execute_sql branch that runs the statement without validating it
DispatchUnvalidated(sql) == execute_sql(sql)

\* an execute_sql branch that serves questions classified as SQL only
DispatchForSqlQuestionsOnly(sql) ==
    LET v == validate_sql(sql)
        modified_sql == v.modified_sql
        sql_to_execute == IF Truthy(modified_sql) THEN modified_sql[1] ELSE sql
    IN  IF ~v.is_valid \/ ~is_sql_request
        THEN {Ret([success |-> FALSE, error |-> v.message, sql |-> sql])}
        ELSE IF Truthy(modified_sql) /\ modified_sql[1] # sql
        THEN {WithValidationMessage(o, v.message) : o \in execute_sql(sql_to_execute)}
        ELSE execute_sql(sql_to_execute)

\* the execute_sql branch: validate first, run the validator's statement
DispatchExecuteSql(sql) ==
    LET v == validate_sql(sql)
        modified_sql == v.modified_sql
        sql_to_execute == IF Truthy(modified_sql) THEN modified_sql[1] ELSE sql
    IN  IF ~v.is_valid
        THEN {Ret([success |-> FALSE, error |-> v.message, sql |-> sql])}
        ELSE IF Truthy(modified_sql) /\ modified_sql[1] # sql
        THEN {WithValidationMessage(o, v.message) : o \in execute_sql(sql_to_execute)}
        ELSE execute_sql(sql_to_execute)

ToolNames == {"get_schema_info", "explore_data", "get_table_stats", "execute_sql"}

\* an else branch that raises instead of returning
UnknownToolRaises(tool_name) == {Raise("ValueError")}

\* return {"error": f"Unknown tool: {tool_name}"}
UnknownTool(tool_name) ==
    {Ret([error |-> [text |-> "Unknown tool: {tool_name}", arg |-> <<tool_name>>]])}

_execute_tool(tool_name, args) ==
    IF tool_name = "get_schema_info"
    THEN get_schema_info(ArgGet(args, "table_name"))
    ELSE IF tool_name = "explore_data"
    THEN IF "table_name" \notin DOMAIN args THEN {Raise("KeyError")}
         ELSE explore_data(args["table_name"], ArgGet(args, "column_name"),
                           IF "sample_size" \in DOMAIN args
                           THEN args["sample_size"] ELSE DefaultSampleSize)
    ELSE IF tool_name = "get_table_stats"
    THEN get_table_stats
    ELSE IF tool_name = "execute_sql"
    THEN IF "sql" \notin DOMAIN args THEN {Raise("KeyError")}
         ELSE DispatchExecuteSql(args["sql"])
    ELSE UnknownTool(tool_name)

\* the argument bags a caller may hand over, complete or not
NoArgs == <<>>
ArgBags ==
    {NoArgs, [table_name |-> "users"],
     [table_name |-> "users", column_name |-> "name", sample_size |-> 1]}
    \cup {[sql |-> q] : q \in SqlSamples}

(***************************************************************************)
(* Specification of the validator: validate_sql applied to every input.    *)
(***************************************************************************)
vars == <<v_sql, v_res, v_res2, db_file, available, connection, t_call, pc, question,
          is_sql_request, response, iteration, last_result, steps,
          outcome, exit_path, sends, sent, chat, dispatches, only_tools,
          api_key, entry, started, app_agent, reqs>>

\* the response slot before any response was received
NoResponse == [kind |-> "none", name |-> "", args |-> <<>>, text |-> <<>>]

\* the worker threads of the HTTP server
Threads == {1, 2}

\* a worker thread without a request
NoRequest == [kind |-> "idle", pc |-> "idle", bound |-> "none", sql |-> <<>>,
              file |-> "", ran |-> <<>>, status |-> 0,
              question |-> <<>>, is_sql_request |-> FALSE]

\* the agent is used on its own, without an entry point around it
ProgramOff ==
    /\ api_key = TRUE
    /\ entry = "none"
    /\ started = "no"
    /\ app_agent = "built"
    /\ reqs = [t \in Threads |-> NoRequest]

\* no call of process_question has been made
AgentIdle ==
    /\ pc = "idle"
    /\ question = <<>>
    /\ is_sql_request = FALSE
    /\ response = NoResponse
    /\ iteration = 0
    /\ last_result = None
    /\ steps = <<>>
    /\ outcome = None
    /\ exit_path = "none"
    /\ sends = 0
    /\ sent = None
    /\ chat = "fresh"
    /\ dispatches = 0
    /\ only_tools = TRUE

ToolsIdle ==
    /\ db_file = "ok" /\ available = TRUE /\ connection = "open"
    /\ t_call = None

InitValidate ==
    /\ v_sql \in SqlStrings
    /\ v_res = None
    /\ v_res2 = None
    /\ ToolsIdle
    /\ AgentIdle
    /\ ProgramOff

\* is_valid, message, modified_sql = self.db_tools.validate_sql(sql)
Validate ==
    /\ v_res = None
    /\ v_res' = Some(validate_sql(v_sql))
    /\ UNCHANGED <<v_sql, v_res2, toolVars, callVars, programVars>>

\* the effective SQL of an accepted statement is handed to validate_sql again
Revalidate ==
    /\ v_res # None
    /\ v_res[1].is_valid
    /\ v_res2 = None
    /\ v_res2' = Some(validate_sql(v_res[1].modified_sql[1]))
    /\ UNCHANGED <<v_sql, v_res, toolVars, callVars, programVars>>

NextValidate ==
    \/ Validate
    \/ Revalidate

SpecValidate == InitValidate /\ [][NextValidate]_vars

(***************************************************************************)
(* Specification of the tools: a DatabaseTools object after construction,  *)
(* called directly with any arguments, and closed.                         *)
(***************************************************************************)
InitTools ==
    /\ v_sql = <<>> /\ v_res = None /\ v_res2 = None
    /\ \E c \in ConnectStates :
          /\ db_file = c.db_file
          /\ available = c.available
          /\ connection = c.connection
    /\ t_call = None
    /\ AgentIdle
    /\ ProgramOff

Called(tool, args, o) ==
    /\ t_call' = Some([tool |-> tool, args |-> args, outcome |-> o])
    /\ UNCHANGED <<programVars, validatorVars, db_file, available, connection, callVars>>

CallGetSchemaInfo ==
    \E tn \in {None, Some("users"), Some("nosuch")} :
      \E o \in get_schema_info(tn) : Called("get_schema_info", <<tn>>, o)

CallExploreData ==
    \E cn \in {None, Some("name")}, size \in {-1, 0, 1, DefaultSampleSize} :
      \E o \in explore_data("users", cn, size) :
        Called("explore_data", <<"users", cn, size>>, o)

CallGetTableStats ==
    \E o \in get_table_stats : Called("get_table_stats", <<>>, o)

CallExecuteSql ==
    \E q \in SqlSamples \cup {sqlSelectTwice} :
      \E o \in execute_sql(q) : Called("execute_sql", <<q>>, o)

\* DatabaseTools.close()
Close ==
    /\ connection' = close_connection
    /\ UNCHANGED <<programVars, validatorVars, db_file, available, t_call, callVars>>

NextTools ==
    \/ CallGetSchemaInfo
    \/ CallExploreData
    \/ CallGetTableStats
    \/ CallExecuteSql
    \/ Close

SpecTools == InitTools /\ [][NextTools]_vars

(***************************************************************************)
(* Specification of the dispatch: SQLAgent._execute_tool called with any   *)
(* tool name and any argument bag, on an agent built on any database file, *)
(* before and after SQLAgent.close().                                      *)
(***************************************************************************)
\* the tool names handed to the dispatch: the four tools and two others
DispatchNames == ToolNames \cup {"drop_table", ""}

InitDispatch == InitTools

\* result = self._execute_tool(tool_name, tool_args)
Dispatch ==
    \E tool_name \in DispatchNames, args \in ArgBags :
      \E o \in _execute_tool(tool_name, args) : Called(tool_name, args, o)

NextDispatch ==
    \/ Dispatch
    \/ Close

SpecDispatch == InitDispatch /\ [][NextDispatch]_vars

(***************************************************************************)
(* SQLAgent._is_sql_request                                                *)
(***************************************************************************)
sql_keywords ==
    <<<<"s","h","o","w">>,
      <<"l","i","s","t">>,
      <<"g","e","t">>,
      <<"f","i","n","d">>,
      <<"f","e","t","c","h">>,
      <<"r","e","t","r","i","e","v","e">>,
      <<"d","i","s","p","l","a","y">>,
      <<"w","h","a","t"," ","a","r","e">>,
      <<"h","o","w"," ","m","a","n","y">>,
      <<"c","o","u","n","t">>,
      <<"t","o","t","a","l">>,
      <<"s","u","m">>,
      <<"a","v","e","r","a","g","e">>,
      <<"t","o","p">>,
      <<"b","o","t","t","o","m">>,
      <<"f","i","r","s","t">>,
      <<"l","a","s","t">>,
      <<"a","l","l">>,
      <<"s","q","l">>,
      <<"q","u","e","r","y">>,
      <<"w","r","i","t","e"," ","q","u","e","r","y">>,
      <<"c","r","e","a","t","e"," ","q","u","e","r","y">>,
      <<"g","e","n","e","r","a","t","e"," ","s","q","l">>,
      <<"s","e","l","e","c","t">>>>

non_sql_keywords ==
    <<<<"w","h","a","t"," ","i","s">>,
      <<"e","x","p","l","a","i","n">>,
      <<"h","o","w"," ","d","o","e","s">>,
      <<"w","h","y">>,
      <<"d","i","f","f","e","r","e","n","c","e"," ","b","e","t","w","e","e","n">>,
      <<"d","e","f","i","n","i","t","i","o","n">>,
      <<"m","e","a","n","i","n","g">>,
      <<"p","u","r","p","o","s","e">>,
      <<"c","o","n","c","e","p","t">>>>

\* any(keyword in text for keyword in keywords)
AnyKeywordIn(keywords, text) ==
    \E k \in 1..Len(keywords) : Contains(keywords[k], text)

\* a classification that looks at the SQL keywords only
ClassifiedBySqlKeywordsOnly(q) == AnyKeywordIn(sql_keywords, Strip(Lower(q)))

_is_sql_request(q) ==
    LET question_lower == Strip(Lower(q))
    IN  IF AnyKeywordIn(non_sql_keywords, question_lower) THEN FALSE
        ELSE AnyKeywordIn(sql_keywords, question_lower)

\* the questions asked
qShowUsers == <<"S","h","o","w"," ","u","s","e","r","s">>
qWhatIsSql == <<"W","h","a","t"," ","i","s"," ","s","q","l">>
Questions == {qShowUsers, qWhatIsSql}

\* the questions posted to /ask: the two above, one with a negative keyword
\* alone and in capitals, one without any keyword, a blank one
PostedQuestions ==
    Questions \cup {<<"W","H","Y"," ">>, <<"H","i">>, <<" ">>}

(***************************************************************************)
(* The SQL recovered from the final text (re.findall with IGNORECASE and   *)
(* DOTALL) and the key points of a general answer.                         *)
(***************************************************************************)
\* the fence of a code block; its character, the backquote, is written "~"
fenceOpen  == <<"~","~","~","s","q","l">>
fenceClose == <<"~","~","~">>
lcSelect   == <<"s","e","l","e","c","t">>
lcSql      == <<"s","q","l">>

\* s[i..] starts with pre
StartsAt(s, i, pre) ==
    i >= 1 /\ i + Len(pre) - 1 <= Len(s) /\ SubSeq(s, i, i + Len(pre) - 1) = pre

\* the first index >= p that holds no white space (Len(s) + 1 when none): \s*
RECURSIVE SkipWs(_, _)
SkipWs(s, p) ==
    IF p <= Len(s) /\ s[p] \in Whitespace THEN SkipWs(s, p + 1) ELSE p

\* \s* and the closing fence match at e
ClosesAt(s, e) == StartsAt(s, SkipWs(s, e), fenceClose)

\* the fenced alternative (fence, sql, \s*, (.*?), \s*, fence) at i: None, or
\* <<group 1>>
FencedAt(s, i) ==
    IF ~StartsAt(Lower(s), i, fenceOpen) THEN None
    ELSE LET b == SkipWs(s, i + Len(fenceOpen))
             ends == {e \in b..(Len(s) + 1) : ClosesAt(s, e)}
         IN  IF ends = {} THEN None
             ELSE LET e == CHOOSE x \in ends : \A y \in ends : x <= y
                  IN  Some(SubSeq(s, b, e - 1))

\* (?:^|\n)(SELECT\s+.*?)(?:\n|$) at i: None, or <<group 2>>
SelectLineAt(s, i) ==
    LET from(b) ==
            IF /\ StartsAt(Lower(s), b, lcSelect)
               /\ b + Len(lcSelect) <= Len(s)
               /\ s[b + Len(lcSelect)] \in Whitespace
            THEN LET w == SkipWs(s, b + Len(lcSelect))
                     ends == {e \in w..(Len(s) + 1) : e = Len(s) + 1 \/ s[e] = "\n"}
                     e == CHOOSE x \in ends : \A y \in ends : x <= y
                 IN  Some(SubSeq(s, b, e - 1))
            ELSE None
    IN  IF i = 1 /\ from(1) # None THEN from(1)
        ELSE IF i <= Len(s) /\ s[i] = "\n" THEN from(i + 1)
        ELSE None

\* the match at i: the fenced alternative is tried first
MatchAt(s, i) == IF FencedAt(s, i) # None THEN FencedAt(s, i) ELSE SelectLineAt(s, i)

\* matches = re.findall(...); the max() over tuples with a constant key and
\* next(s for s in sql if s) keep the group of the first match; then strip()
ExtractSql(text) ==
    LET starts == {i \in 1..Len(text) : MatchAt(text, i) # None}
    IN  IF starts = {} THEN None
        ELSE LET i == CHOOSE x \in starts : \A y \in starts : x <= y
             IN  Some(Strip(MatchAt(text, i)[1]))

\* the first index at which sep occurs in s (0: nowhere)
FindFirst(s, sep) ==
    LET at == {i \in 1..(Len(s) - Len(sep) + 1) : StartsAt(s, i, sep)}
    IN  IF at = {} THEN 0 ELSE CHOOSE x \in at : \A y \in at : x <= y

\* str.split(sep)
RECURSIVE Split(_, _)
Split(s, sep) ==
    LET i == FindFirst(s, sep)
    IN  IF i = 0 THEN <<s>>
        ELSE <<SubSeq(s, 1, i - 1)>> \o Split(SubSeq(s, i + Len(sep), Len(s)), sep)

\* the stripped lines that are not empty and do not start with #
RECURSIVE PointLines(_)
PointLines(lines) ==
    IF lines = <<>> THEN <<>>
    ELSE LET line == Strip(Head(lines))
         IN  IF line # <<>> /\ line[1] # "#"
             THEN <<line>> \o PointLines(Tail(lines))
             ELSE PointLines(Tail(lines))

Point(n, detail) == [step |-> n, title |-> "Point", detail |-> detail]

\* the two key points of a general answer
KeyPoints(text) ==
    LET lines == PointLines(Split(Strip(text), <<"\n">>))
        sentences == Split([i \in 1..Len(text) |->
                              IF text[i] = "\n" THEN " " ELSE text[i]], <<".", " ">>)
    IN  IF Len(lines) >= 2
        THEN <<Point(1, lines[1]), Point(2, lines[2])>>
        ELSE <<Point(1, sentences[1] \o <<".">>),
               Point(2, IF Len(sentences) > 1 THEN sentences[2] \o <<".">>
                        ELSE <<"Additional context provided above.">>)>>

\* the final texts the LLM answers with
txtPlain      == <<"A"," ","k","e","y","."," ","O","k">>
txtFenced     == <<"~","~","~","s","q","l","\n","S","E","L","E","C","T"," ","a",";","\n","~","~","~">>
txtLine       == <<"R","u","n","\n","s","e","l","e","c","t"," ","a","\n","o","k">>
txtFencedDrop == <<"~","~","~","s","q","l"," ","D","R","O","P"," ","T","A","B","L","E"," ","a","~","~","~">>
Texts == {txtPlain, txtFenced, txtLine, txtFencedDrop}

\* the extraction, tabulated over the final texts
ExtractedSql == [t \in Texts |-> ExtractSql(t)]

(***************************************************************************)
(* SQLAgent.process_question                                               *)
(***************************************************************************)
\* dict.get(key, default)
DictGet(d, key, default) == IF key \in DOMAIN d THEN d[key] ELSE default

\* self.database_available, copied from db_tools.available at construction;
\* neither changes afterwards
database_available == available

\* ReasoningTrace.add_step(title, content, icon) on the first two entries of
\* the list, the only ones an outcome reads (reasoning.steps[:2]); the step
\* number of an entry is its position
add_step(trace, title) ==
    IF Len(trace) < 2
    THEN Append(trace, [step |-> Len(trace) + 1, title |-> title, detail |-> <<>>])
    ELSE trace

\* the requests the LLM makes: every tool with complete and incomplete
\* argument bags, and a tool outside the enumeration
ToolRequests ==
    { <<"get_schema_info", NoArgs>>,
      <<"get_schema_info", [table_name |-> "users"]>>,
      <<"explore_data", NoArgs>>,
      <<"explore_data", [table_name |-> "users"]>>,
      <<"explore_data", [table_name |-> "users", sample_size |-> 1]>>,
      <<"get_table_stats", NoArgs>>,
      <<"execute_sql", NoArgs>>,
      <<"drop_table", NoArgs>> }
    \cup {<<"execute_sql", [sql |-> q]>> : q \in SqlSamples}

\* the shapes of response.candidates[0].content.parts
Responses ==
    { [kind |-> "no_parts", name |-> "", args |-> <<>>, text |-> <<>>],
      [kind |-> "other", name |-> "", args |-> <<>>, text |-> <<>>] }
    \cup {[kind |-> "function_call", name |-> r[1], args |-> r[2], text |-> <<>>]
            : r \in ToolRequests}
    \cup {[kind |-> "text", name |-> "", args |-> <<>>, text |-> t] : t \in Texts}

\* f"{system_context}\n\nUser question: {question}": the system prompt of the
\* agent's database mode, the no-SQL note of a general question, the question
QuestionMessage(q, isq) ==
    [kind |-> "question", name |-> "",
     response |-> [database_available |-> database_available, no_sql_note |-> ~isq,
                   question |-> q]]

\* a function response that leaves the error text out of the result
FunctionResponseWithoutError(tool_name, tool_result) ==
    [kind |-> "function_response", name |-> tool_name,
     response |-> [result |-> [k \in DOMAIN tool_result \ {"error"} |-> tool_result[k]]]]

\* a function response sent without the name of the tool
FunctionResponseUnnamed(tool_name, tool_result) ==
    [kind |-> "function_response", name |-> "",
     response |-> [result |-> tool_result]]

\* FunctionResponse(name=tool_name, response={"result": tool_result})
FunctionResponse(tool_name, tool_result) ==
    [kind |-> "function_response", name |-> tool_name,
     response |-> [result |-> tool_result]]

\* a transport failure reported as a success
TransportErrorAsSuccess == [success |-> TRUE, error |-> Err("{str(e)}")]

\* return {"success": False, "error": str(e)}
TransportError == [success |-> FALSE, error |-> Err("{str(e)}")]

\* an error outcome that leaves the captured result out
ErrorOutcomeWithoutResult(q, isq, lr, trace) ==
    [success |-> FALSE, question |-> q,
     summary |-> <<"Agent could not complete the task fully">>,
     reasoning |-> SubSeq(trace, 1, IF Len(trace) < 2 THEN Len(trace) ELSE 2),
     sql |-> <<>>, result |-> [columns |-> <<>>, rows |-> <<>>],
     status |-> "error", error |-> Err("Agent did not complete the task"),
     databaseAvailable |-> database_available, isSqlRequest |-> isq]

\* the outcome built after the loop was left without a final text
ErrorOutcome(q, isq, lr, trace) ==
    LET has == lr # None
        sql == IF has THEN DictGet(lr[1], "sql", <<>>) ELSE <<>>
        rows == IF has THEN DictGet(lr[1], "results", <<>>) ELSE <<>>
        columns == IF has THEN DictGet(lr[1], "columns", <<>>) ELSE <<>>
        summary == IF has
                   THEN <<"Query executed with ">> \o IntToStr(Len(rows)) \o <<" results">>
                   ELSE <<"Agent could not complete the task fully">>
    IN  [success |-> FALSE, question |-> q, summary |-> summary,
         reasoning |-> SubSeq(trace, 1, IF Len(trace) < 2 THEN Len(trace) ELSE 2),
         sql |-> sql, result |-> [columns |-> columns, rows |-> rows],
         status |-> "error", error |-> Err("Agent did not complete the task"),
         databaseAvailable |-> database_available, isSqlRequest |-> isq]

\* an outcome of a final text shaped by the captured SQL alone
FinalOutcomeIgnoringClass(q, isq, text, sql, rows, columns) ==
    IF sql # <<>>
    THEN [success |-> TRUE, question |-> q, summary |-> <<>>, reasoning |-> <<>>,
          sql |-> sql, result |-> [columns |-> columns, rows |-> rows],
          status |-> IF rows # <<>> THEN "success" ELSE "empty",
          databaseAvailable |-> database_available, isSqlRequest |-> TRUE]
    ELSE [success |-> TRUE, question |-> q, summary |-> text,
          reasoning |-> SubSeq(KeyPoints(text), 1, 2),
          sql |-> <<>>, result |-> [columns |-> <<>>, rows |-> <<>>],
          status |-> "success",
          databaseAvailable |-> database_available, isSqlRequest |-> FALSE]

\* an outcome of a final text that leaves the rows and columns out
FinalOutcomeWithoutRows(q, isq, text, sql, rows, columns) ==
    IF isq /\ sql # <<>>
    THEN [success |-> TRUE, question |-> q, summary |-> <<>>, reasoning |-> <<>>,
          sql |-> sql, result |-> [columns |-> <<>>, rows |-> <<>>],
          status |-> IF rows # <<>> THEN "success" ELSE "empty",
          databaseAvailable |-> database_available, isSqlRequest |-> TRUE]
    ELSE [success |-> TRUE, question |-> q, summary |-> text,
          reasoning |-> SubSeq(KeyPoints(text), 1, 2),
          sql |-> <<>>, result |-> [columns |-> <<>>, rows |-> <<>>],
          status |-> "success",
          databaseAvailable |-> database_available, isSqlRequest |-> FALSE]

\* an outcome of a final text whose status is always "success"
FinalOutcomeAlwaysSuccess(q, isq, text, sql, rows, columns) ==
    IF isq /\ sql # <<>>
    THEN [success |-> TRUE, question |-> q, summary |-> <<>>, reasoning |-> <<>>,
          sql |-> sql, result |-> [columns |-> columns, rows |-> rows],
          status |-> "success",
          databaseAvailable |-> database_available, isSqlRequest |-> TRUE]
    ELSE [success |-> TRUE, question |-> q, summary |-> text,
          reasoning |-> SubSeq(KeyPoints(text), 1, 2),
          sql |-> <<>>, result |-> [columns |-> <<>>, rows |-> <<>>],
          status |-> "success",
          databaseAvailable |-> database_available, isSqlRequest |-> FALSE]

\* the outcome of a final text, from the sql, rows and columns settled on
FinalOutcome(q, isq, text, sql, rows, columns) ==
    IF isq /\ sql # <<>>
    THEN [success |-> TRUE, question |-> q, summary |-> <<>>, reasoning |-> <<>>,
          sql |-> sql, result |-> [columns |-> columns, rows |-> rows],
          status |-> IF rows # <<>> THEN "success" ELSE "empty",
          databaseAvailable |-> database_available, isSqlRequest |-> TRUE]
    ELSE [success |-> TRUE, question |-> q, summary |-> text,
          reasoning |-> SubSeq(KeyPoints(text), 1, 2),
          sql |-> <<>>, result |-> [columns |-> <<>>, rows |-> <<>>],
          status |-> "success",
          databaseAvailable |-> database_available, isSqlRequest |-> FALSE]

\* the call is over: it returned o
Return(o, path) ==
    /\ pc' = "returned"
    /\ outcome' = Some(o)
    /\ exit_path' = path

\* a response the loop holds and has not read: what it contains is drawn from
\* Responses by the iteration that reads it
Unread == [kind |-> "unread", name |-> "", args |-> <<>>, text |-> <<>>]

\* the LLM answers a send
Receive ==
    /\ pc' = "loop"
    /\ response' = Unread
    /\ outcome' = None
    /\ exit_path' = "none"

\* process_question up to the first response: classification, first
\* reasoning step, first send
ProcessQuestion ==
    /\ pc = "idle"
    /\ steps' = add_step(<<>>, "Analyzing question")
    /\ iteration' = 0
    /\ last_result' = None
    /\ sends' = 1
    /\ dispatches' = 0
    /\ t_call' = None
    /\ \E q \in Questions :
        /\ question' = q
        /\ is_sql_request' = _is_sql_request(q)
        /\ sent' = Some(QuestionMessage(q, _is_sql_request(q)))
    /\ \/ /\ Return(TransportError, "transport_first")
          /\ response' = NoResponse
          /\ only_tools' = FALSE
          /\ UNCHANGED chat
       \/ /\ Receive
          /\ only_tools' = TRUE
          /\ chat' = "used"
    /\ UNCHANGED <<programVars, validatorVars, db_file, available, connection>>

InLoop == pc = "loop" /\ iteration < max_iterations

\* one iteration on a tool request: dispatch, capture, send the result back
IterToolCall ==
    /\ InLoop
    /\ iteration' = iteration + 1
    /\ dispatches' = dispatches + 1
    /\ \E r \in Responses :
        /\ r.kind = "function_call"
        /\ \E o \in _execute_tool(r.name, r.args) :
            LET called == add_step(steps, "Calling tool")
                failed == r.name = "execute_sql"
                          /\ ~DictGet(o.value, "success", FALSE)
                trace == IF ~o.raised /\ failed
                         THEN add_step(called, "Query failed, analyzing error")
                         ELSE called
            IN  /\ t_call' = Some([tool |-> r.name, args |-> r.args, outcome |-> o])
                /\ steps' = trace
                /\ IF o.raised
                   THEN /\ pc' = "raised"
                        /\ exit_path' = "raised"
                        /\ response' = r
                        /\ UNCHANGED <<last_result, outcome, sends, sent, only_tools>>
                   ELSE /\ last_result' = Some(o.value)
                        /\ sends' = sends + 1
                        /\ sent' = Some(FunctionResponse(r.name, o.value))
                        /\ \/ /\ Return(TransportError, "transport_tool")
                              /\ response' = r
                              /\ only_tools' = FALSE
                           \/ /\ Receive
                              /\ UNCHANGED only_tools
    /\ UNCHANGED <<programVars, validatorVars, db_file, available, connection, question,
                   is_sql_request, chat>>

\* leaving the loop without a final text
LeaveLoop(path) ==
    /\ Return(ErrorOutcome(question, is_sql_request, last_result, steps), path)
    /\ UNCHANGED <<programVars, validatorVars, toolVars, question, is_sql_request,
                   last_result, steps, sends, sent, chat, dispatches>>

\* one iteration on a response without parts: break
IterNoContent ==
    /\ InLoop
    /\ iteration' = iteration + 1
    /\ \E r \in Responses : r.kind = "no_parts" /\ response' = r
    /\ only_tools' = FALSE
    /\ LeaveLoop("no_content")

\* one iteration on a part that is neither a function call nor a text: break
IterOther ==
    /\ InLoop
    /\ iteration' = iteration + 1
    /\ \E r \in Responses : r.kind = "other" /\ response' = r
    /\ only_tools' = FALSE
    /\ LeaveLoop("other")

\* the while test fails: the iteration budget is used up, the response held
\* is never read
LoopExhausted ==
    /\ pc = "loop"
    /\ iteration >= max_iterations
    /\ UNCHANGED <<iteration, response, only_tools>>
    /\ LeaveLoop("exhausted")

\* one iteration on a final text: settle sql, rows and columns, recover the
\* SQL from the text when none was captured, build the outcome
IterFinalText ==
    /\ InLoop
    /\ iteration' = iteration + 1
    /\ only_tools' = FALSE
    /\ \E r \in Responses :
       /\ r.kind = "text"
       /\ response' = r
       /\ LET text == r.text
               has == last_result # None
               sql0 == IF has THEN DictGet(last_result[1], "sql", <<>>) ELSE <<>>
               rows0 == IF has THEN DictGet(last_result[1], "results", <<>>) ELSE <<>>
               columns0 == IF has THEN DictGet(last_result[1], "columns", <<>>) ELSE <<>>
               generated == add_step(steps, "Generating response")
               text_lower == Lower(text)
               matches == IF /\ is_sql_request /\ sql0 = <<>> /\ text # <<>>
                             /\ (Contains(lcSelect, text_lower) \/ Contains(lcSql, text_lower))
                          THEN ExtractedSql[text] ELSE None
               sql == IF matches # None THEN matches[1] ELSE sql0
           IN  IF matches # None /\ sql # <<>> /\ database_available
               THEN \E o \in _execute_tool("execute_sql", [sql |-> sql]) :
                      LET ok == ~o.raised /\ DictGet(o.value, "success", FALSE)
                          trace == IF o.raised
                                   THEN add_step(generated, "Execution note")
                                   ELSE IF ok THEN add_step(generated, "Query executed")
                                   ELSE generated
                      IN  /\ t_call' = Some([tool |-> "execute_sql", args |-> [sql |-> sql],
                                             outcome |-> o])
                          /\ steps' = trace
                          /\ Return(FinalOutcome(question, is_sql_request, text, sql,
                                      IF ok THEN DictGet(o.value, "results", <<>>) ELSE rows0,
                                      IF ok THEN DictGet(o.value, "columns", <<>>) ELSE columns0),
                                    "final_text")
               ELSE /\ steps' = generated
                    /\ Return(FinalOutcome(question, is_sql_request, text, sql, rows0, columns0),
                              "final_text")
                    /\ UNCHANGED t_call
    /\ UNCHANGED <<programVars, validatorVars, db_file, available, connection, question,
                   is_sql_request, last_result, sends, sent, chat, dispatches>>

\* the caller has the outcome or the exception; the locals of the call are gone
CallEnds ==
    /\ pc \in {"returned", "raised"}
    /\ pc' = "idle"
    /\ question' = <<>>
    /\ is_sql_request' = FALSE
    /\ response' = NoResponse
    /\ iteration' = 0
    /\ last_result' = None
    /\ steps' = <<>>
    /\ outcome' = None
    /\ exit_path' = "none"
    /\ sends' = 0
    /\ sent' = None
    /\ dispatches' = 0
    /\ only_tools' = TRUE
    /\ t_call' = None
    /\ UNCHANGED <<programVars, validatorVars, db_file, available, connection, chat>>

\* a reset_chat that also closes the database handle
ResetChatClosing ==
    /\ pc = "idle"
    /\ chat' = "reset"
    /\ connection' = close_connection
    /\ UNCHANGED <<programVars, validatorVars, db_file, available, t_call, pc, question,
                   is_sql_request, response, iteration, last_result, steps, outcome,
                   exit_path, sends, sent, dispatches, only_tools>>

\* SQLAgent.reset_chat(), between calls of process_question
ResetChat ==
    /\ pc = "idle"
    /\ chat' = "reset"
    /\ UNCHANGED <<programVars, validatorVars, toolVars, pc, question, is_sql_request, response,
                   iteration, last_result, steps, outcome, exit_path, sends, sent,
                   dispatches, only_tools>>

\* SQLAgent.close(), between calls of process_question
AgentClose ==
    /\ pc = "idle"
    /\ connection' = close_connection
    /\ UNCHANGED <<programVars, validatorVars, db_file, available, t_call, callVars>>

Init ==
    /\ v_sql = <<>> /\ v_res = None /\ v_res2 = None
    /\ \E c \in ConnectStates :
          /\ db_file = c.db_file
          /\ available = c.available
          /\ connection = c.connection
    /\ t_call = None
    /\ AgentIdle
    /\ ProgramOff

Next ==
    \/ ProcessQuestion
    \/ IterToolCall
    \/ IterNoContent
    \/ IterOther
    \/ IterFinalText
    \/ LoopExhausted
    \/ CallEnds
    \/ ResetChat
    \/ AgentClose

Spec == Init /\ [][Next]_vars

(***************************************************************************)
(* The programs around the agent: the HTTP server of backend/apis.py, whose *)
(* handlers run on worker threads and share app.state.agent, and the two   *)
(* CLI modes of main.py.  A handler is a sequence of steps, one for each   *)
(* stretch of its code between two uses of what the threads share; a       *)
(* request's record holds its handler (kind), its position (pc: "checked"  *)
(* after the guards of /execute-sql, "asking" inside process_question,     *)
(* "in_db" between cursor() and the return of a tool, "closed" after       *)
(* agent.close()), the agent object its call is bound to (bound), the      *)
(* question of /ask and its classification, the statement handed to        *)
(* execute_sql (ran) and the HTTP status of the last response.  process_question is kept to the tool calls it makes; the     *)
(* loop around them is the one of Spec.  With two threads an agent object  *)
(* that was replaced in app.state.agent has been closed by the replacing   *)
(* request, so "replaced" stands for a closed handle.                      *)
(***************************************************************************)
\* the response of a handler: the thread is free again
Responded(code, sql) == [NoRequest EXCEPT !.status = code, !.ran = sql]

\* SQLAgent(db_path) on the file: DatabaseTools.__init__ and _connect
BuildAgent(file) ==
    /\ app_agent' = "built"
    /\ db_file' = file
    /\ \E c \in ConnectStates :
          /\ c.db_file = file
          /\ available' = c.available
          /\ connection' = c.connection

\* app.state.agent = SQLAgent(db_path) by thread t: the calls of the other
\* thread stay bound to the agent object they started on
Replaced(t, code) ==
    [u \in Threads |->
        IF u = t THEN Responded(code, None)
        ELSE IF reqs[u].bound = "current"
        THEN [reqs[u] EXCEPT !.bound = IF available THEN "replaced"
                                       ELSE "replaced_unavailable"]
        ELSE reqs[u]]

programFrame == <<api_key, validatorVars, t_call, callVars>>

\* startup() of backend/apis.py
startup ==
    /\ entry = "none"
    /\ entry' = "http"
    /\ started' = "yes"
    /\ IF api_key
       THEN BuildAgent(db_file)
       ELSE /\ app_agent' = "None"
            /\ UNCHANGED <<db_file, available, connection>>
    /\ UNCHANGED <<programFrame, reqs>>

\* the start of both CLI modes: the database file is tested, then (interactive
\* mode) the API key, then SQLAgent() is built, whose exception ends the mode
StartCli ==
    IF db_file = "missing" \/ ~api_key
    THEN /\ started' = "returned"
         /\ UNCHANGED <<app_agent, db_file, available, connection>>
    ELSE /\ started' = "yes"
         /\ BuildAgent(db_file)

\* run_interactive_mode() of main.py, up to its main loop
run_interactive_mode ==
    /\ entry = "none"
    /\ entry' = "interactive"
    /\ StartCli
    /\ UNCHANGED <<programFrame, reqs>>

\* run_demo_queries() of main.py, up to the first query
run_demo_queries ==
    /\ entry = "none"
    /\ entry' = "demo"
    /\ StartCli
    /\ UNCHANGED <<programFrame, reqs>>

Serving == entry = "http" /\ started = "yes"

\* POST /ask on thread t
ask_question(t) ==
    /\ Serving
    /\ \/ /\ reqs[t].kind = "idle"
          /\ \E q \in PostedQuestions :
               reqs' = [reqs EXCEPT ![t] =
                          IF Strip(q) = <<>> THEN Responded(400, None)
                          ELSE IF app_agent # "built" THEN Responded(500, None)
                          ELSE [NoRequest EXCEPT !.kind = "ask", !.pc = "asking",
                                                 !.bound = "current",
                                                 !.question = Strip(q),
                                                 !.is_sql_request =
                                                     _is_sql_request(Strip(q))]]
       \/ /\ reqs[t].kind = "ask"
          /\ reqs[t].pc = "asking"
          /\ \/ /\ reqs[t].bound = "current" /\ available
                /\ reqs' = [reqs EXCEPT ![t] =
                              IF CursorFails THEN Responded(500, None)
                              ELSE [@ EXCEPT !.pc = "in_db"]]
             \/ /\ reqs[t].bound = "replaced"
                /\ reqs' = [reqs EXCEPT ![t] = Responded(500, None)]
             \/ reqs' = [reqs EXCEPT ![t] = Responded(200, None)]
       \/ /\ reqs[t].kind = "ask"
          /\ reqs[t].pc = "in_db"
          /\ reqs' = [reqs EXCEPT ![t].pc = "asking"]
    /\ UNCHANGED <<programFrame, entry, started, app_agent, db_file, available,
                   connection>>

\* POST /execute-sql on thread t
execute_raw_sql(t) ==
    /\ Serving
    /\ \/ /\ reqs[t].kind = "idle"
          /\ \E q \in SqlSamples :
               reqs' = [reqs EXCEPT ![t] =
                          IF app_agent # "built" THEN Responded(500, None)
                          ELSE IF ~database_available THEN Responded(400, None)
                          ELSE [NoRequest EXCEPT !.kind = "execute_sql",
                                                 !.pc = "checked", !.sql = q]]
       \/ /\ reqs[t].kind = "execute_sql"
          /\ reqs[t].pc = "checked"
          /\ \E o \in execute_sql(reqs[t].sql) :
               reqs' = [reqs EXCEPT ![t] =
                          IF o.raised THEN Responded(500, o.executed)
                          ELSE IF ~available THEN Responded(400, o.executed)
                          ELSE [@ EXCEPT !.pc = "in_db", !.bound = "current",
                                         !.ran = o.executed,
                                         !.status = IF o.value.success THEN 200
                                                    ELSE 400]]
       \/ /\ reqs[t].kind = "execute_sql"
          /\ reqs[t].pc = "in_db"
          /\ reqs' = [reqs EXCEPT ![t] = Responded(reqs[t].status, reqs[t].ran)]
    /\ UNCHANGED <<programFrame, entry, started, app_agent, db_file, available,
                   connection>>

\* POST /databases/{db_name}/select on thread t
select_database(t) ==
    /\ Serving
    /\ \/ /\ reqs[t].kind = "idle"
          /\ \E file \in {"missing", "unopenable", "ok"} :
               IF file = "missing"
               THEN /\ reqs' = [reqs EXCEPT ![t] = Responded(404, None)]
                    /\ UNCHANGED connection
               ELSE IF app_agent # "built"
               THEN /\ reqs' = [reqs EXCEPT ![t] = Responded(500, None)]
                    /\ UNCHANGED connection
               ELSE /\ reqs' = [reqs EXCEPT ![t] =
                                  [NoRequest EXCEPT !.kind = "select", !.pc = "closed",
                                                    !.file = file]]
                    /\ connection' = close_connection
          /\ UNCHANGED <<app_agent, db_file, available>>
       \/ /\ reqs[t].kind = "select"
          /\ reqs[t].pc = "closed"
          /\ BuildAgent(reqs[t].file)
          /\ reqs' = Replaced(t, 200)
    /\ UNCHANGED <<programFrame, entry, started>>

\* POST /upload-database: the file checks, the close of the agent in place,
\* the new agent
upload_database(t) ==
    /\ Serving
    /\ \/ /\ reqs[t].kind = "idle"
          /\ \E valid \in BOOLEAN :
               IF ~valid
               THEN /\ reqs' = [reqs EXCEPT ![t] = Responded(400, None)]
                    /\ UNCHANGED connection
               ELSE /\ reqs' = [reqs EXCEPT ![t] =
                                  [NoRequest EXCEPT !.kind = "upload", !.pc = "closed",
                                                    !.file = "ok"]]
                    /\ connection' = IF app_agent = "built" THEN close_connection
                                     ELSE connection
          /\ UNCHANGED <<app_agent, db_file, available>>
       \/ /\ reqs[t].kind = "upload"
          /\ reqs[t].pc = "closed"
          /\ IF api_key
             THEN /\ BuildAgent(reqs[t].file)
                  /\ reqs' = Replaced(t, 200)
             ELSE /\ reqs' = [reqs EXCEPT ![t] = Responded(500, None)]
                  /\ UNCHANGED <<app_agent, db_file, available, connection>>
    /\ UNCHANGED <<programFrame, entry, started>>

\* the process before its entry point has run
InitProgram ==
    /\ v_sql = <<>> /\ v_res = None /\ v_res2 = None
    /\ db_file \in {"missing", "unopenable", "ok"}
    /\ available = FALSE
    /\ connection = "None"
    /\ t_call = None
    /\ AgentIdle
    /\ api_key \in BOOLEAN
    /\ entry = "none"
    /\ started = "no"
    /\ app_agent = "unset"
    /\ reqs = [t \in Threads |-> NoRequest]

NextProgram ==
    \/ startup
    \/ run_interactive_mode
    \/ run_demo_queries
    \/ \E t \in Threads : ask_question(t)
    \/ \E t \in Threads : execute_raw_sql(t)
    \/ \E t \in Threads : select_database(t)
    \/ \E t \in Threads : upload_database(t)

SpecProgram == InitProgram /\ [][NextProgram]_vars

(***************************************************************************)
(* The agent of src/src/agent.py: the same dispatch and the same loop up   *)
(* to the tool branch, no classification of the question, and outcomes     *)
(* that carry last_result and the reasoning steps as they are.  The trace  *)
(* is kept to its first two entries, as in the rest of the model, and the  *)
(* DatabaseTools it imports is the one of src/backend/src/tools.py.        *)
(***************************************************************************)
\* f"{self.system_prompt}\n\nUser question: {question}"
LegacyQuestionMessage(q) ==
    [kind |-> "question", name |-> "",
     response |-> [database_available |-> TRUE, no_sql_note |-> FALSE, question |-> q]]

\* the outcome of a final text
LegacyFinalOutcome(q, text, lr, trace) ==
    [success |-> TRUE, question |-> q, summary |-> text, last_result |-> lr,
     reasoning_steps |-> trace]

\* the outcome built after the loop was left without a final text
LegacyExitOutcome(q, lr, trace) ==
    IF lr # None
    THEN [success |-> TRUE, question |-> q, last_result |-> lr, reasoning_steps |-> trace]
    ELSE [success |-> FALSE, error |-> Err("Agent did not complete the task"),
          reasoning_steps |-> trace]

\* process_question up to the first response: first reasoning step, first send
LegacyProcessQuestion ==
    /\ pc = "idle"
    /\ steps' = add_step(<<>>, "Analyzing question")
    /\ iteration' = 0
    /\ last_result' = None
    /\ sends' = 1
    /\ dispatches' = 0
    /\ t_call' = None
    /\ is_sql_request' = FALSE
    /\ \E q \in Questions :
        /\ question' = q
        /\ sent' = Some(LegacyQuestionMessage(q))
    /\ \/ /\ Return(TransportError, "transport_first")
          /\ response' = NoResponse
          /\ only_tools' = FALSE
          /\ UNCHANGED chat
       \/ /\ Receive
          /\ only_tools' = TRUE
          /\ chat' = "used"
    /\ UNCHANGED <<programVars, validatorVars, db_file, available, connection>>

\* leaving the loop without a final text
LegacyLeaveLoop(path) ==
    /\ Return(LegacyExitOutcome(question, last_result, steps), path)
    /\ UNCHANGED <<programVars, validatorVars, toolVars, question, is_sql_request,
                   last_result, steps, sends, sent, chat, dispatches>>

\* one iteration on a response without parts: break
LegacyIterNoContent ==
    /\ InLoop
    /\ iteration' = iteration + 1
    /\ \E r \in Responses : r.kind = "no_parts" /\ response' = r
    /\ only_tools' = FALSE
    /\ LegacyLeaveLoop("no_content")

\* one iteration on a part that is neither a function call nor a text: break
LegacyIterOther ==
    /\ InLoop
    /\ iteration' = iteration + 1
    /\ \E r \in Responses : r.kind = "other" /\ response' = r
    /\ only_tools' = FALSE
    /\ LegacyLeaveLoop("other")

\* the while test fails: the iteration budget is used up, the response held
\* is never read
LegacyLoopExhausted ==
    /\ pc = "loop"
    /\ iteration >= max_iterations
    /\ UNCHANGED <<iteration, response, only_tools>>
    /\ LegacyLeaveLoop("exhausted")

\* one iteration on a final text: the outcome carries the text and last_result
LegacyIterFinalText ==
    /\ InLoop
    /\ iteration' = iteration + 1
    /\ only_tools' = FALSE
    /\ steps' = add_step(steps, "Generating response")
    /\ \E r \in Responses :
        /\ r.kind = "text"
        /\ response' = r
        /\ Return(LegacyFinalOutcome(question, r.text, last_result,
                                     add_step(steps, "Generating response")),
                  "final_text")
    /\ UNCHANGED <<programVars, validatorVars, toolVars, question, is_sql_request,
                   last_result, sends, sent, chat, dispatches>>

NextLegacy ==
    \/ LegacyProcessQuestion
    \/ IterToolCall
    \/ LegacyIterNoContent
    \/ LegacyIterOther
    \/ LegacyIterFinalText
    \/ LegacyLoopExhausted
    \/ CallEnds
    \/ ResetChat
    \/ AgentClose

SpecLegacy == Init /\ [][NextLegacy]_vars

(***************************************************************************)
(* Properties of the validator (checked under SpecValidate).               *)
(***************************************************************************)
\* kw, written in upper case, occurs in s in some letter case
OccursAnyCase(kw, s) ==
    \E i \in 0..(Len(s) - Len(kw)) :
        \A j \in 1..Len(kw) : s[i + j] = kw[j] \/ s[i + j] = LowerChar(kw[j])

\* s, after leading white space, starts with kw in some letter case
StartsAnyCase(kw, s) ==
    LET t == LStrip(s)
    IN  /\ Len(kw) <= Len(t)
        /\ \A j \in 1..Len(kw) : t[j] = kw[j] \/ t[j] = LowerChar(kw[j])

AnyBlockedOccurs(s) ==
    \E k \in 1..Len(BLOCKED_KEYWORDS) : OccursAnyCase(BLOCKED_KEYWORDS[k], s)

\* C2: a statement that contains a blocked keyword, in any letter case and at
\* any position, is rejected with a null effective SQL and a message that
\* names a blocked keyword occurring in the statement.
C2_BlockedKeywordRejected ==
    (v_res # None /\ AnyBlockedOccurs(v_sql)) =>
        /\ v_res[1].is_valid = FALSE
        /\ v_res[1].modified_sql = None
        /\ \E k \in 1..Len(BLOCKED_KEYWORDS) :
              /\ v_res[1].message = MsgBlocked(BLOCKED_KEYWORDS[k])
              /\ OccursAnyCase(BLOCKED_KEYWORDS[k], v_sql)

\* C2 witness: a statement accepted by its prefix whose only blocked keyword
\* is in mixed case has been validated and rejected.
C2_Witness ==
    /\ v_res # None
    /\ StartsAnyCase(kwSELECT, v_sql)
    /\ OccursAnyCase(kwDROP, v_sql)
    /\ ~Contains(kwDROP, v_sql)
    /\ v_res[1].message.arg = kwDROP

\* the statements C10 is about
C10_Case ==
    /\ StartsAnyCase(kwSELECT, v_sql) \/ StartsAnyCase(kwWITH, v_sql)
    /\ ~AnyBlockedOccurs(v_sql)
    /\ ~OccursAnyCase(kwLIMIT, v_sql)
    /\ ~OccursAnyCase(kwCOUNT, v_sql)
    /\ ~OccursAnyCase(kwSUM, v_sql)
    /\ ~OccursAnyCase(kwAVG, v_sql)

LimitClause == <<" ","L","I","M","I","T"," ","1","0","0">>

\* C10 as stated: the effective SQL is the statement itself followed by the
\* LIMIT 100 clause.
C10_AsStated ==
    (v_res # None /\ C10_Case) =>
        /\ v_res[1].is_valid = TRUE
        /\ v_res[1].modified_sql = Some(v_sql \o LimitClause)
        /\ v_res[1].message = MsgAddedLimit

\* C10 amended: the effective SQL is the statement without its trailing
\* semicolons, followed by the LIMIT 100 clause, and the message reports the
\* added LIMIT.
C10_LimitAppended ==
    (v_res # None /\ C10_Case) =>
        /\ v_res[1].is_valid = TRUE
        /\ v_res[1].modified_sql = Some(RStripChars(v_sql, {";"}) \o LimitClause)
        /\ v_res[1].message.text = "Valid. Added LIMIT {DEFAULT_LIMIT} for safety."
        /\ v_res[1].message.arg = <<"1","0","0">>

\* C10 witness: a statement of the case that ends in a semicolon was validated.
C10_Witness ==
    /\ v_res # None
    /\ C10_Case
    /\ v_sql[Len(v_sql)] = ";"
    /\ v_res[1].is_valid

\* one of COUNT(, SUM( and AVG( occurs in s in some letter case
AnyAggregateOccurs(s) ==
    \/ OccursAnyCase(kwCOUNT, s)
    \/ OccursAnyCase(kwSUM, s)
    \/ OccursAnyCase(kwAVG, s)

\* the statements C11 is about: accepted by prefix and blocklist, holding an
\* aggregate and no LIMIT
C11_Case ==
    /\ StartsAnyCase(kwSELECT, v_sql) \/ StartsAnyCase(kwWITH, v_sql)
    /\ ~AnyBlockedOccurs(v_sql)
    /\ AnyAggregateOccurs(v_sql)
    /\ ~OccursAnyCase(kwLIMIT, v_sql)

\* C11: an accepted statement that contains COUNT(, SUM( or AVG( and no LIMIT
\* comes back with an effective SQL identical to the input, no LIMIT
\* injected, and the message that reports no substitution.
C11_AggregateKeepsSql ==
    (v_res # None /\ C11_Case) =>
        /\ v_res[1].is_valid = TRUE
        /\ v_res[1].modified_sql = Some(v_sql)
        /\ ~OccursAnyCase(kwLIMIT, v_res[1].modified_sql[1])
        /\ v_res[1].message.text = "Valid SQL query."
        /\ v_res[1].message.arg = <<>>

\* C11 witness: a statement whose only aggregate is a lower-case sum( and
\* which ends in a semicolon was validated and came back unchanged.
C11_Witness ==
    /\ v_res # None
    /\ C11_Case
    /\ ~Contains(kwSUM, v_sql) /\ ~OccursAnyCase(kwCOUNT, v_sql) /\ ~OccursAnyCase(kwAVG, v_sql)
    /\ v_sql[Len(v_sql)] = ";"
    /\ v_res[1].modified_sql = Some(v_sql)

\* the number of places of s where kw occurs in some letter case
CountAnyCase(kw, s) ==
    Cardinality({ i \in 0..(Len(s) - Len(kw)) :
                    \A j \in 1..Len(kw) : s[i + j] = kw[j] \/ s[i + j] = LowerChar(kw[j]) })

\* C12: validate_sql is idempotent on its own output: the effective SQL of an
\* accepted statement, validated again, is accepted and comes back as it
\* went in, with as many LIMIT clauses as it had.
C12_Idempotent ==
    v_res2 # None =>
        /\ v_res[1].is_valid
        /\ v_res2[1].is_valid = TRUE
        /\ v_res2[1].modified_sql = v_res[1].modified_sql
        /\ CountAnyCase(kwLIMIT, v_res2[1].modified_sql[1])
             = CountAnyCase(kwLIMIT, v_res[1].modified_sql[1])

\* C12 witness: a statement that got a LIMIT injected, its trailing semicolon
\* removed, was validated a second time.
C12_Witness ==
    /\ v_res2 # None
    /\ v_sql[Len(v_sql)] = ";"
    /\ ~OccursAnyCase(kwLIMIT, v_sql)
    /\ CountAnyCase(kwLIMIT, v_res[1].modified_sql[1]) = 1
    /\ v_res2[1].message.text = "Valid SQL query."

(***************************************************************************)
(* Properties of the tool dispatch and of process_question (checked under  *)
(* Spec), and of the tools (checked under SpecTools).                      *)
(***************************************************************************)
\* the last _execute_tool call was an execute_sql request carrying a statement
ExecuteSqlDispatched ==
    /\ t_call # None
    /\ t_call[1].tool = "execute_sql"
    /\ "sql" \in DOMAIN t_call[1].args

\* C1: an execute_sql request whose SQL the validator rejects returns
\* {success: false, error: the validator's message, sql: the original SQL}
\* without DatabaseTools.execute_sql being invoked, and every statement the
\* dispatch hands to DatabaseTools.execute_sql was accepted by validate_sql:
\* it is the effective SQL of an accepted request and holds no blocked keyword.
C1_ValidatorGatesDispatch ==
    ExecuteSqlDispatched =>
        LET sql == t_call[1].args["sql"]
            o == t_call[1].outcome
            v == validate_sql(sql)
        IN  /\ ~v.is_valid =>
                /\ ~o.raised
                /\ o.value = [success |-> FALSE, error |-> v.message, sql |-> sql]
                /\ o.executed = <<>>
            /\ \A i \in DOMAIN o.executed :
                /\ v.is_valid
                /\ o.executed[i] = v.modified_sql[1]
                /\ ~AnyBlockedOccurs(o.executed[i])

\* C1 witness: with a database open, a DROP statement was dispatched and
\* came back rejected.
C1_Witness ==
    /\ ExecuteSqlDispatched
    /\ available /\ connection = "open"
    /\ t_call[1].args["sql"] = sqlDrop
    /\ t_call[1].outcome.value.success = FALSE

\* the call of process_question is over
CallOver == pc \in {"returned", "raised"}

\* C3: with an LLM that answers every turn with a tool request, the loop
\* dispatches at most 10 tools, then the call returns an outcome with status
\* "error".
C3_AsStated ==
    /\ dispatches <= max_iterations
    /\ (CallOver /\ only_tools) =>
          /\ pc = "returned"
          /\ outcome # None
          /\ "status" \in DOMAIN outcome[1]
          /\ outcome[1].status = "error"

\* C4: process_question never raises to its caller.
C4_AsStated == pc # "raised"

\* C5: every outcome process_question returns carries a status that is one
\* of success, empty, error.
C5_AsStated ==
    pc = "returned" =>
        /\ "status" \in DOMAIN outcome[1]
        /\ outcome[1].status \in {"success", "empty", "error"}

\* a tool result of a statement that ran and returned no row
RanWithZeroRows(r) ==
    /\ DictGet(r, "success", FALSE)
    /\ "results" \in DOMAIN r
    /\ r["results"] = <<>>

\* C6: an outcome has status "empty" only when the SQL of the outcome was
\* executed successfully and returned zero rows: by the last tool dispatched
\* in the loop or by the execution of the SQL recovered from the text.
C6_AsStated ==
    (pc = "returned" /\ DictGet(outcome[1], "status", "") = "empty") =>
        \/ last_result # None /\ RanWithZeroRows(last_result[1])
        \/ /\ t_call # None
           /\ ~t_call[1].outcome.raised
           /\ RanWithZeroRows(t_call[1].outcome.value)

\* C7: in every outcome that carries a result, rows and columns are both
\* empty or both non-empty.
C7_AsStated ==
    (pc = "returned" /\ "result" \in DOMAIN outcome[1]) =>
        (outcome[1].result.rows = <<>> <=> outcome[1].result.columns = <<>>)

\* C8: a transport failure ends the call at once with {success: false,
\* error: the raw message}: on the first send one send was attempted and
\* no tool dispatched; on a tool-result send the failed send is the last
\* event of the call, one send after the last dispatch, with no retry.
C8_TransportFailureTerminal ==
    /\ exit_path = "transport_first" =>
          /\ pc = "returned"
          /\ sends = 1 /\ dispatches = 0 /\ iteration = 0
          /\ outcome[1].success = FALSE
          /\ outcome[1].error = Err("{str(e)}")
    /\ exit_path = "transport_tool" =>
          /\ pc = "returned"
          /\ sends = dispatches + 1
          /\ dispatches = iteration
          /\ outcome[1].success = FALSE
          /\ outcome[1].error = Err("{str(e)}")

\* C8 witness: the send of the third tool result failed.
C8_Witness ==
    /\ exit_path = "transport_tool"
    /\ dispatches = 3
    /\ sends = 4

\* C9: a DatabaseTools built on a missing file is not available and stays
\* so, and every call on it returns a mapping with an error field and does
\* not raise.
C9_MissingFileDegrades ==
    db_file = "missing" =>
        /\ available = FALSE
        /\ t_call # None =>
              /\ ~t_call[1].outcome.raised
              /\ "error" \in DOMAIN t_call[1].outcome.value

\* C9 witness: execute_sql was called on a DatabaseTools built on a missing
\* file.
C9_Witness ==
    /\ db_file = "missing"
    /\ t_call # None
    /\ t_call[1].tool = "execute_sql"
    /\ t_call[1].outcome.value.success = FALSE

(***************************************************************************)
(* Properties of SQLAgent._execute_tool (checked under SpecDispatch).      *)
(***************************************************************************)
\* C13: for a tool name outside the four tools, whatever the argument bag
\* and whatever the state of the database handle, _execute_tool returns
\* {error: "Unknown tool: <name>"}, does not raise and hands no statement to
\* the database.
C13_UnknownToolReported ==
    (t_call # None /\ t_call[1].tool \notin ToolNames) =>
        /\ ~t_call[1].outcome.raised
        /\ DOMAIN t_call[1].outcome.value = {"error"}
        /\ t_call[1].outcome.value.error.text = "Unknown tool: {tool_name}"
        /\ t_call[1].outcome.value.error.arg = <<t_call[1].tool>>
        /\ t_call[1].outcome.executed = <<>>

\* C13 witness: after close(), with the handle closed, drop_table was
\* requested with a DROP statement as its sql argument.
C13_Witness ==
    /\ t_call # None
    /\ t_call[1].tool = "drop_table"
    /\ t_call[1].args = [sql |-> sqlDrop]
    /\ connection = "closed"
    /\ ~t_call[1].outcome.raised

\* C14: for each of the four tools and every argument bag, _execute_tool
\* returns a result mapping and does not raise.
C14_AsStated ==
    (t_call # None /\ t_call[1].tool \in ToolNames) => ~t_call[1].outcome.raised

(***************************************************************************)
(* Properties of the loop of process_question (checked under Spec).        *)
(***************************************************************************)
\* the loop has just dispatched an execute_sql request that came back failed
\* (rejected by the validator, failed in the database, or no database), and
\* no later response has been interpreted
FailedSqlDispatched ==
    /\ pc \in {"loop", "returned"}
    /\ t_call # None
    /\ iteration = dispatches
    /\ t_call[1].tool = "execute_sql"
    /\ ~t_call[1].outcome.raised
    /\ ~DictGet(t_call[1].outcome.value, "success", FALSE)

\* C15: a failed execute_sql tool call does not end process_question: the
\* failed result, error text included, is the message sent to the LLM next,
\* and then the loop holds the LLM's next response and, while iterations
\* remain, is at the loop test with an iteration to run on it; the call ends
\* there only when that send fails or the iteration budget is used up.
C15_FailedSqlFedBack ==
    FailedSqlDispatched =>
        /\ sends = dispatches + 1
        /\ sent # None
        /\ sent[1].kind = "function_response"
        /\ sent[1].name = "execute_sql"
        /\ sent[1].response.result = t_call[1].outcome.value
        /\ "error" \in DOMAIN sent[1].response.result
        /\ \/ /\ pc = "loop"
              /\ response = Unread
              /\ iteration < max_iterations => InLoop
           \/ /\ pc = "returned"
              /\ exit_path = "transport_tool"
           \/ /\ pc = "returned"
              /\ exit_path = "exhausted"
              /\ iteration = max_iterations

\* C15 witness: the second tool call of a call was an execute_sql that failed
\* in the database, and the loop holds the LLM's next response.
C15_Witness ==
    /\ FailedSqlDispatched
    /\ pc = "loop"
    /\ iteration = 2
    /\ "error_type" \in DOMAIN t_call[1].outcome.value
    /\ response = Unread

(***************************************************************************)
(* Properties of the outcomes of process_question.                         *)
(***************************************************************************)
\* the call returned after leaving the loop without a final text
LeftWithoutFinalText ==
    /\ pc = "returned"
    /\ exit_path \in {"no_content", "other", "exhausted"}

\* C16: whenever process_question leaves the loop without a final text, the
\* outcome has status "error" and success false, with or without a captured
\* tool result (checked under SpecLegacy for src/src/agent.py and under Spec
\* for src/backend/src/agent.py).
C16_AsStated ==
    LeftWithoutFinalText =>
        /\ outcome[1].success = FALSE
        /\ "status" \in DOMAIN outcome[1]
        /\ outcome[1].status = "error"

\* the field key of the tool result the loop captured last, the empty
\* sequence when the result lacks it or no tool was dispatched
CapturedField(key) ==
    IF t_call # None /\ key \in DOMAIN t_call[1].outcome.value
    THEN t_call[1].outcome.value[key]
    ELSE <<>>

\* C17: the outcome returned when the loop is left without a final text
\* preserves the partial result - its sql, columns and rows are those of the
\* last tool result captured, empty when there is none - and its fields set
\* it apart from a transport-error outcome, which has success and error only.
C17_ExitPreservesResult ==
    LeftWithoutFinalText =>
        /\ outcome[1].sql = CapturedField("sql")
        /\ outcome[1].result.columns = CapturedField("columns")
        /\ outcome[1].result.rows = CapturedField("results")
        /\ outcome[1].status = "error"
        /\ DOMAIN TransportError = {"success", "error"}
        /\ {"status", "sql", "result", "question"} \subseteq DOMAIN outcome[1]

\* C17 witness: the iteration budget ran out after a tenth tool call, an
\* execute_sql that returned rows, and the outcome carries them.
C17_Witness ==
    /\ LeftWithoutFinalText
    /\ exit_path = "exhausted"
    /\ dispatches = max_iterations
    /\ t_call[1].tool = "execute_sql"
    /\ outcome[1].result.rows # <<>>
    /\ outcome[1].sql # <<>>

\* C18: for a question classified as non-SQL, a call that ends on a final
\* text returns sql "", no rows, no columns and isSqlRequest false, whatever
\* tools, execute_sql included, were dispatched before the final text.
C18_GeneralQuestionHasNoSql ==
    (pc = "returned" /\ exit_path = "final_text" /\ ~_is_sql_request(question)) =>
        /\ outcome[1].sql = <<>>
        /\ outcome[1].result.rows = <<>>
        /\ outcome[1].result.columns = <<>>
        /\ outcome[1].isSqlRequest = FALSE

\* C18 witness: the question "What is SQL" was answered by a final text after
\* an execute_sql call that returned rows.
C18_Witness ==
    /\ pc = "returned"
    /\ exit_path = "final_text"
    /\ question = qWhatIsSql
    /\ last_result # None
    /\ DictGet(last_result[1], "success", FALSE)
    /\ DictGet(last_result[1], "results", <<>>) # <<>>
    /\ outcome[1].success

(***************************************************************************)
(* Properties of DatabaseTools called directly (checked under SpecTools).  *)
(***************************************************************************)
\* C19: get_schema_info called with the name of a table that does not exist,
\* on an available database with an open handle, returns a mapping with an
\* error field, not a table_schema result, and does not raise.
C19_AsStated ==
    ( /\ t_call # None
      /\ t_call[1].tool = "get_schema_info"
      /\ t_call[1].args[1] # None
      /\ t_call[1].args[1][1] \in MissingTables
      /\ available /\ connection = "open" ) =>
        /\ ~t_call[1].outcome.raised
        /\ "error" \in DOMAIN t_call[1].outcome.value
        /\ DictGet(t_call[1].outcome.value, "type", "") # "table_schema"

\* C20: execute_sql on an available database never raises to its caller, and
\* a failed run returns exactly success false, sql, error, error_type and
\* execution_time, without rows or columns.
C20_AsStated ==
    ( /\ t_call # None
      /\ t_call[1].tool = "execute_sql"
      /\ available ) =>
        /\ ~t_call[1].outcome.raised
        /\ ~t_call[1].outcome.value.success =>
              DOMAIN t_call[1].outcome.value
                = {"success", "sql", "error", "error_type", "execution_time"}

C22_ResetKeepsTools ==
    [][ /\ ResetChat =>
              /\ chat' = "reset"
              /\ db_file' = db_file
              /\ connection' = connection
              /\ available' = available
              /\ \A q \in Questions :
                    QuestionMessage(q, _is_sql_request(q))'
                      = QuestionMessage(q, _is_sql_request(q))
              /\ \A tool_name \in DispatchNames \ {"execute_sql"}, args \in ArgBags :
                    _execute_tool(tool_name, args)' = _execute_tool(tool_name, args)
              /\ \A sql \in SqlSamples : execute_sql(sql)' = execute_sql(sql)
        /\ AgentClose =>
              /\ connection' # "open"
              /\ chat' = chat
      ]_vars

\* C22 witness: the conversation was reset on an agent whose database is
\* open and available.
C22_Witness ==
    /\ chat = "reset"
    /\ pc = "idle"
    /\ available
    /\ connection = "open"

\* C23: for every integer sample_size, explore_data returns at most
\* sample_size sample rows when no column is given and at most sample_size
\* sample values when a column is given; with a column, distinct_count <=
\* non_null_count <= total_count, and the sample values hold no duplicate.
C23_AsStated ==
    ( /\ t_call # None
      /\ t_call[1].tool = "explore_data"
      /\ ~t_call[1].outcome.raised
      /\ "type" \in DOMAIN t_call[1].outcome.value ) =>
        LET r == t_call[1].outcome.value
            sample_size == t_call[1].args[3]
        IN  IF r.type = "sample_rows"
            THEN /\ Len(r.sample_data) <= sample_size
                 /\ r.sample_size <= sample_size
            ELSE /\ Len(r.sample_values) <= sample_size
                 /\ r.distinct_count <= r.non_null_count
                 /\ r.non_null_count <= r.total_count
                 /\ \A i, j \in 1..Len(r.sample_values) :
                       r.sample_values[i] = r.sample_values[j] => i = j

(***************************************************************************)
(* Properties of the programs around the agent (checked under SpecProgram). *)
(***************************************************************************)
\* C24: with the API key set and a database file that is missing or cannot
\* be opened, every entry point (the HTTP startup, the interactive mode and
\* the demo mode) starts, with an agent whose database is not available.
C24_AsStated ==
    ( /\ entry # "none"
      /\ api_key
      /\ db_file \in {"missing", "unopenable"}
      /\ reqs = [t \in Threads |-> NoRequest] ) =>
        /\ started = "yes"
        /\ app_agent = "built"
        /\ ~available

\* C25: no two requests are inside process_question of the same agent, and so
\* in its conversation, at the same time; no two requests are inside a
\* statement on the same database handle at the same time; and no handle is
\* closed under a request that is inside a statement on it.
C25_AsStated ==
    /\ \A t, u \in Threads :
          ( /\ t # u
            /\ reqs[t].bound = "current"
            /\ reqs[u].bound = "current" ) =>
              /\ ~(reqs[t].kind = "ask" /\ reqs[u].kind = "ask")
              /\ ~(reqs[t].pc = "in_db" /\ reqs[u].pc = "in_db")
    /\ \A t \in Threads :
          (reqs[t].pc = "in_db" /\ reqs[t].bound = "current") => connection = "open"
    /\ \A t \in Threads :
          reqs[t].kind = "ask" => reqs[t].bound = "current"

\* C26: every statement an HTTP request hands to DatabaseTools.execute_sql
\* was accepted by validate_sql and holds no blocked keyword.
C26_AsStated ==
    \A t \in Threads :
        reqs[t].ran # None =>
            /\ validate_sql(reqs[t].ran[1]).is_valid
            /\ ~AnyBlockedOccurs(reqs[t].ran[1])

(***************************************************************************)
(* Further properties of SQLAgent._execute_tool (checked under             *)
(* SpecDispatch).                                                          *)
(***************************************************************************)
\* C27 as stated: when the validator accepts an execute_sql request, the
\* statement handed to the database is the effective SQL, the result carries
\* a validation_message key exactly when the effective SQL differs from the
\* original, and the result's sql field is the effective SQL.
C27_AsStated ==
    (ExecuteSqlDispatched /\ validate_sql(t_call[1].args["sql"]).is_valid) =>
        LET sql == t_call[1].args["sql"]
            o == t_call[1].outcome
            effective == validate_sql(sql).modified_sql[1]
        IN  /\ o.executed = <<effective>>
            /\ ~o.raised =>
                  /\ "validation_message" \in DOMAIN o.value <=> effective # sql
                  /\ "sql" \in DOMAIN o.value
                  /\ o.value.sql = effective

\* C27: when the validator accepts an execute_sql request, the statement
\* handed to DatabaseTools.execute_sql is the effective SQL; a result that
\* comes back carries the validator's message under validation_message
\* exactly when the effective SQL differs from the original; on an available
\* database its sql field is the effective SQL, and on an unavailable one it
\* has no sql field.
C27_EffectiveSqlRuns ==
    (ExecuteSqlDispatched /\ validate_sql(t_call[1].args["sql"]).is_valid) =>
        LET sql == t_call[1].args["sql"]
            o == t_call[1].outcome
            v == validate_sql(sql)
            effective == v.modified_sql[1]
        IN  /\ o.executed = <<effective>>
            /\ ~o.raised =>
                  /\ "validation_message" \in DOMAIN o.value <=> effective # sql
                  /\ "validation_message" \in DOMAIN o.value =>
                        o.value.validation_message = v.message
                  /\ IF available
                     THEN "sql" \in DOMAIN o.value /\ o.value.sql = effective
                     ELSE "sql" \notin DOMAIN o.value

\* C27 witness: on an open database a SELECT without LIMIT was dispatched,
\* ran with the LIMIT appended and came back with the validator's message.
C27_Witness ==
    /\ ExecuteSqlDispatched
    /\ available /\ connection = "open"
    /\ t_call[1].args["sql"] = sqlSelectSemi
    /\ ~t_call[1].outcome.raised
    /\ t_call[1].outcome.value.success
    /\ t_call[1].outcome.value.sql # sqlSelectSemi
    /\ "validation_message" \in DOMAIN t_call[1].outcome.value

(***************************************************************************)
(* Properties of the final-text turn (checked under Spec).                 *)
(***************************************************************************)
\* a call returned on a final text
ReturnedOnFinalText == pc = "returned" /\ exit_path = "final_text"

C29_RecoveryGuarded ==
    [][ (pc = "loop" /\ exit_path' = "final_text") =>
          LET captured == IF last_result = None THEN <<>>
                          ELSE DictGet(last_result[1], "sql", <<>>)
          IN  /\ sends' = sends
              /\ sent' = sent
              /\ chat' = chat
              /\ outcome'[1].sql \notin {<<>>, captured} =>
                    is_sql_request /\ captured = <<>>
              /\ t_call' # t_call =>
                    /\ is_sql_request
                    /\ captured = <<>>
                    /\ database_available
                    /\ t_call'[1].tool = "execute_sql"
                    /\ t_call'[1].args = [sql |-> outcome'[1].sql]
                    /\ LET o == t_call'[1].outcome
                           v == validate_sql(outcome'[1].sql)
                       IN  IF v.is_valid
                           THEN o.executed = <<v.modified_sql[1]>>
                           ELSE /\ o.executed = <<>>
                                /\ ~o.raised
                                /\ o.value = [success |-> FALSE, error |-> v.message,
                                              sql |-> outcome'[1].sql]
      ]_vars

\* C29 witness: a question classified as SQL was answered, after a schema
\* lookup, by a final text that holds a statement; the statement was run and
\* its rows are in the outcome.
C29_Witness ==
    /\ ReturnedOnFinalText
    /\ is_sql_request
    /\ last_result # None
    /\ "sql" \notin DOMAIN last_result[1]
    /\ t_call # None
    /\ t_call[1].tool = "execute_sql"
    /\ ~t_call[1].outcome.raised
    /\ t_call[1].outcome.value.success
    /\ outcome[1].sql = t_call[1].args["sql"]
    /\ outcome[1].result.rows # <<>>

\* C30: in the outcome returned on a final text, status is "success" when the
\* outcome's rows are not empty, otherwise "empty" when its sql is not empty,
\* otherwise "success"; it is never "error".
C30_FinalTextStatus ==
    ReturnedOnFinalText =>
        /\ outcome[1].status =
              IF outcome[1].result.rows # <<>> THEN "success"
              ELSE IF outcome[1].sql # <<>> THEN "empty"
              ELSE "success"
        /\ outcome[1].status # "error"

\* C30 witness: a final text ended a call whose statement ran and returned no
\* row: the outcome has the statement, no rows and the status "empty".
C30_Witness ==
    /\ ReturnedOnFinalText
    /\ last_result # None
    /\ DictGet(last_result[1], "success", FALSE)
    /\ outcome[1].sql # <<>>
    /\ outcome[1].result.rows = <<>>
    /\ outcome[1].status = "empty"

(***************************************************************************)
(* Properties of the outcomes of process_question (checked under Spec).    *)
(***************************************************************************)
\* C31: in every outcome that has a reasoning list, the list is the first two
\* (or, when fewer were collected, all) of the reasoning steps collected
\* during the call, in collection order.
C31_AsStated ==
    (pc = "returned" /\ "reasoning" \in DOMAIN outcome[1]) =>
        outcome[1].reasoning = steps

\* the last step of the call was a tool dispatch of the loop that returned
LoopDispatched ==
    /\ pc \in {"loop", "returned"}
    /\ t_call # None
    /\ iteration = dispatches
    /\ ~t_call[1].outcome.raised

\* C32: whatever the classification of the question, a tool request read
\* within the iteration budget is dispatched and its result is the message
\* sent back: the result is captured, it is sent under the requested name,
\* one message was sent for the question and one for every dispatch, and an
\* execute_sql request the validator accepts reaches the database.
C32_ClassNeverBlocksTools ==
    LoopDispatched =>
        LET c == t_call[1]
        IN  /\ last_result = Some(c.outcome.value)
            /\ sent = Some(FunctionResponse(c.tool, c.outcome.value))
            /\ sends = dispatches + 1
            /\ ( /\ c.tool = "execute_sql"
                 /\ "sql" \in DOMAIN c.args
                 /\ validate_sql(c.args["sql"]).is_valid ) =>
                    c.outcome.executed = <<validate_sql(c.args["sql"]).modified_sql[1]>>
            /\ (c.tool = "get_table_stats" /\ available) =>
                    "type" \in DOMAIN c.outcome.value

\* C32 witness: for the question "What is SQL", classified as non-SQL, the
\* second tool request was an execute_sql that ran and returned rows, and
\* the loop holds the LLM's answer to its result.
C32_Witness ==
    /\ LoopDispatched
    /\ pc = "loop"
    /\ ~is_sql_request
    /\ question = qWhatIsSql
    /\ dispatches = 2
    /\ t_call[1].tool = "execute_sql"
    /\ DictGet(t_call[1].outcome.value, "success", FALSE)
    /\ DictGet(t_call[1].outcome.value, "results", <<>>) # <<>>
    /\ sent[1].name = "execute_sql"

(***************************************************************************)
(* Properties of SQLAgent._is_sql_request (checked under SpecProgram, on   *)
(* the questions posted to /ask).                                          *)
(***************************************************************************)
\* kw occurs in s when letter case is ignored
OccursIgnoringCase(kw, s) ==
    \E i \in 1..(Len(s) - Len(kw) + 1) :
        \A j \in 1..Len(kw) : LowerChar(s[i + j - 1]) = LowerChar(kw[j])

AnyOccursIgnoringCase(keywords, s) ==
    \E k \in 1..Len(keywords) : OccursIgnoringCase(keywords[k], s)

\* C33: a question that contains a negative keyword, in any letter case, is
\* classified as non-SQL whatever positive keywords it contains; a question
\* without a negative keyword is classified as SQL exactly when it contains
\* a positive keyword.
C33_NegativeKeywordsOverride ==
    \A t \in Threads :
        reqs[t].kind = "ask" =>
            reqs[t].is_sql_request
              = ( /\ ~AnyOccursIgnoringCase(non_sql_keywords, reqs[t].question)
                  /\ AnyOccursIgnoringCase(sql_keywords, reqs[t].question) )

\* C33 witness: "What is sql", which holds the negative keyword "what is"
\* and the positive keyword "sql", is being answered as a non-SQL question.
C33_Witness ==
    \E t \in Threads :
        /\ reqs[t].kind = "ask"
        /\ reqs[t].question = qWhatIsSql
        /\ AnyOccursIgnoringCase(sql_keywords, reqs[t].question)
        /\ ~reqs[t].is_sql_request

(***************************************************************************)
(* The exchange of one call of process_question (checked under Spec).      *)
(***************************************************************************)
\* the final text made the call run the statement found in it
RecoveryDispatched ==
    /\ ReturnedOnFinalText
    /\ t_call # None
    /\ \/ last_result = None
       \/ t_call[1].outcome.raised
       \/ last_result[1] # t_call[1].outcome.value

\* C34 as stated: while a call goes on and when it has returned, the number
\* of messages sent to the LLM is one more than the number of tool
\* dispatches the call has made.
C34_AsStated ==
    pc \in {"loop", "returned"} =>
        sends = dispatches + (IF RecoveryDispatched THEN 1 ELSE 0) + 1

\* C34: every step of a call dispatches at most one tool; a dispatch of the
\* loop that returns is followed, in the same iteration, by one message that
\* carries its result under the requested tool name, and only then is the
\* next response held; a dispatch that raises ends the call without a
\* message; the step on a final text sends nothing, whether or not it runs
\* the statement found in the text.  So the messages sent are one more than
\* the dispatches of the loop, or as many when the last dispatch raised.
C34_StrictAlternation ==
    [][ /\ pc' \in {"loop", "returned"} => sends' = dispatches' + 1
        /\ pc' = "raised" => sends' = dispatches'
        /\ pc = "loop" =>
              /\ dispatches' \in {dispatches, dispatches + 1}
              /\ sends' \in {sends, sends + 1}
              /\ dispatches' = dispatches + 1 =>
                    /\ response = Unread
                    /\ t_call' # None
                    /\ IF t_call'[1].outcome.raised
                       THEN /\ pc' = "raised"
                            /\ sends' = sends
                            /\ sent' = sent
                       ELSE /\ sends' = sends + 1
                            /\ sent' = Some(FunctionResponse(t_call'[1].tool,
                                                             t_call'[1].outcome.value))
                            /\ sent'[1].name = t_call'[1].tool
                            /\ pc' = "loop" => response' = Unread
              /\ dispatches' = dispatches => sends' = sends /\ sent' = sent
      ]_vars

\* C34 witness: the third tool of a call, an explore_data, returned, its
\* result was sent under that name, and the loop holds the answer.
C34_Witness ==
    /\ pc = "loop"
    /\ dispatches = 3
    /\ sends = 4
    /\ response = Unread
    /\ t_call[1].tool = "explore_data"
    /\ sent[1].name = "explore_data"
    /\ sent[1].response.result = t_call[1].outcome.value

(***************************************************************************)
(* Further properties of validate_sql (checked under SpecValidate).        *)
(***************************************************************************)
\* a statement that is the word SELECT or WITH and nothing else but white
\* space and semicolons: no SQL grammar accepts it
BareKeyword(sql) ==
    RStripChars(Strip(Upper(sql)), Whitespace \cup {";"}) \in {kwSELECT, kwWITH}

\* C35: a statement without a blocked keyword that does not start with
\* SELECT or WITH is rejected with a null effective SQL, and so is a
\* statement without a blocked keyword that starts with one of them and is
\* not syntactically valid SQL.
C35_AsStated ==
    (v_res # None /\ FirstBlocked(Strip(Upper(v_sql))) = 0) =>
        LET sql_upper == Strip(Upper(v_sql))
            prefixed == StartsWith(sql_upper, kwSELECT) \/ StartsWith(sql_upper, kwWITH)
        IN  /\ ~prefixed =>
                  ~v_res[1].is_valid /\ v_res[1].modified_sql = None
            /\ (prefixed /\ BareKeyword(v_sql)) =>
                  ~v_res[1].is_valid /\ v_res[1].modified_sql = None

\* the part of an effective SQL that precedes the appended LIMIT clause
BeforeLimitClause(m) ==
    SubSeq(m, 1, Len(m) - Len(LimitClause))

\* the last character of s that is not white space is a semicolon
EndsStatementWithSemicolon(s) ==
    LET t == RStripChars(s, Whitespace)
    IN  t # <<>> /\ t[Len(t)] = ";"

\* C36: when a LIMIT is injected into a statement whose last non-whitespace
\* character is a semicolon, no semicolon stands between the statement and
\* the appended LIMIT clause.
C36_AsStated ==
    (v_res # None /\ C10_Case /\ EndsStatementWithSemicolon(v_sql)) =>
        /\ v_res[1].modified_sql # None
        /\ ~EndsStatementWithSemicolon(BeforeLimitClause(v_res[1].modified_sql[1]))

(***************************************************************************)
(* Further properties of process_question (checked under Spec).            *)
(***************************************************************************)
\* process_question returned the degraded error outcome
DegradedReturn ==
    pc = "returned" /\ exit_path \in {"no_content", "other", "exhausted"}

\* C37: the degraded error outcome is returned only after every response
\* received has been interpreted: no response, which may be a final text, is
\* left unread when the call returns.
C37_AsStated ==
    DegradedReturn => response # Unread

\* C38: an outcome that has an isSqlRequest field carries the classification
\* computed for the question at the start of the call.
C38_AsStated ==
    (pc = "returned" /\ "isSqlRequest" \in DOMAIN outcome[1]) =>
        outcome[1].isSqlRequest = is_sql_request

\* the outcome returned carries the rows of the last execute_sql dispatched
RowsOfLastExecuteSql ==
    /\ pc = "returned"
    /\ "result" \in DOMAIN outcome[1]
    /\ outcome[1].result.rows # <<>>
    /\ t_call # None
    /\ t_call[1].tool = "execute_sql"
    /\ ~t_call[1].outcome.raised
    /\ DictGet(t_call[1].outcome.value, "success", FALSE)
    /\ outcome[1].result.rows = DictGet(t_call[1].outcome.value, "results", <<>>)

\* C39: an outcome with non-empty rows has as its sql the statement that was
\* executed against the database to produce them, for rows of an execute_sql
\* tool call and for rows of the text-recovery fallback.
C39_AsStated ==
    RowsOfLastExecuteSql => t_call[1].outcome.executed = <<outcome[1].sql>>

(***************************************************************************)
(* The availability flag and the handle (checked under SpecTools).         *)
(***************************************************************************)
\* C40: in every state reached by construction, tool calls and close,
\* available = true implies that the connection handle is open; the claim
\* rests on it that a tool call made after close() does not raise.
C40_AsStated ==
    available => connection = "open"

====
